---- MODULE Spec2Model ----
(***************************************************************************)
(* qp: the 9P2000 / 9P2000.u / 9P2000.e message codec, the protocol        *)
(* tables, and the framing Encoder and Decoder (simple and greedy mode).   *)
(*                                                                         *)
(* Bytes are naturals 0..255, a []byte or a string is a sequence of bytes. *)
(* Go's 0-based half-open slices b[lo:hi] are SubSeq(b, lo+1, hi).         *)
(* A message is a record whose field "variant" is the Go type name.        *)
(***************************************************************************)
EXTENDS Integers, Sequences, FiniteSets, TLC

----------------------------------------------------------------------------
(* Program constants *)

HeaderSize == 5

Tversion == 100
Rversion == 101
Tauth    == 102
Rauth    == 103
Tattach  == 104
Rattach  == 105
Terror   == 106
Rerror   == 107
Tflush   == 108
Rflush   == 109
Twalk    == 110
Rwalk    == 111
Topen    == 112
Ropen    == 113
Tcreate  == 114
Rcreate  == 115
Tread    == 116
Rread    == 117
Twrite   == 118
Rwrite   == 119
Tclunk   == 120
Rclunk   == 121
Tremove  == 122
Rremove  == 123
Tstat    == 124
Rstat    == 125
Twstat   == 126
Rwstat   == 127

Tsession == 150
Rsession == 151
Tsread   == 152
Rsread   == 153
Tswrite  == 154
Rswrite  == 155

\* MessageToMessageType returns Tlast beside its error; the value is unused.
NoType == 0

ErrNil == "nil"
ErrPayloadTooShort == "payload too short"
ErrMessageTooBig == "message size larger than buffer"
ErrUnknownMessageType == "unknown message type"

\* The model's integers are narrower than Go's: every quantity of the model
\* stays below UintWrap, which stands for 2^32 where a uint32 wraps around.
UintWrap == 1073741824

----------------------------------------------------------------------------
(* encoding/binary.LittleEndian and slice helpers *)

RECURSIVE LEBytes(_, _)
LEBytes(v, w) == IF w = 0 THEN <<>> ELSE <<v % 256>> \o LEBytes(v \div 256, w - 1)

RECURSIVE LEValue(_)
LEValue(b) == IF b = <<>> THEN 0 ELSE b[1] + 256 * LEValue(Tail(b))

\* make([]byte, n)
MakeBytes(n) == [i \in 1..n |-> 0]

\* b[lo:hi]
Slice(b, lo, hi) == SubSeq(b, lo + 1, hi)

\* copy(b[off:], src)
CopyAt(b, off, src) ==
    [i \in 1..Len(b) |-> IF i > off /\ i <= off + Len(src) THEN src[i - off] ELSE b[i]]

Uint16(b, off) == LEValue(Slice(b, off, off + 2))
Uint32(b, off) == LEValue(Slice(b, off, off + 4))
Uint64(b, off) == LEValue(Slice(b, off, off + 8))

PutUint16(b, off, v) == CopyAt(b, off, LEBytes(v % 65536, 2))
PutUint32(b, off, v) == CopyAt(b, off, LEBytes(v, 4))
PutUint64(b, off, v) == CopyAt(b, off, LEBytes(v, 8))
PutByte(b, off, v)   == CopyAt(b, off, <<v % 256>>)

\* uint32 subtraction, wrapping around
Sub32(a, b) == IF a >= b THEN a - b ELSE UintWrap - (b - a)

Ok(m)      == [err |-> ErrNil, m |-> m]
Fail(e, m) == [err |-> e, m |-> m]

----------------------------------------------------------------------------
(* Supporting structures *)

ZeroQid == [Type |-> 0, Version |-> 0, Path |-> 0]

ZeroStat == [Type |-> 0, Dev |-> 0, Qid |-> ZeroQid, Mode |-> 0, Atime |-> 0,
             Mtime |-> 0, Length |-> 0, Name |-> <<>>, UID |-> <<>>,
             GID |-> <<>>, MUID |-> <<>>]

\* The qid stored at b[off : off+13]
QidAt(b, off) ==
    [Type |-> b[off + 1], Version |-> Uint32(b, off + 1), Path |-> Uint64(b, off + 5)]

PutQid(b, off, q) ==
    PutUint64(PutUint32(PutByte(b, off, q.Type), off + 1, q.Version), off + 5, q.Path)

Qid_UnmarshalBinary(q, b) ==
    IF Len(b) < 13 THEN Fail(ErrPayloadTooShort, q) ELSE Ok(QidAt(b, 0))

Qid_MarshalBinary(q) == PutQid(MakeBytes(13), 0, q)

Stat_UnmarshalBinary(s, b) ==
    LET t0 == 2 + 2 + 4 + 13 + 4 + 4 + 4 + 8 + 2 + 2 + 2 + 2
        s1 == [s EXCEPT !.Type = Uint16(b, 2), !.Dev = Uint32(b, 4),
                        !.Qid = QidAt(b, 8), !.Mode = Uint32(b, 21),
                        !.Atime = Uint32(b, 25), !.Mtime = Uint32(b, 29),
                        !.Length = Uint64(b, 33)]
    IN  IF Len(b) < t0 THEN Fail(ErrPayloadTooShort, s) ELSE
        LET idx1 == 41
            l1 == Uint16(b, idx1)
            t1 == t0 + l1
        IN  IF Len(b) < t1 THEN Fail(ErrPayloadTooShort, s1) ELSE
        LET s2 == [s1 EXCEPT !.Name = Slice(b, idx1 + 2, idx1 + 2 + l1)]
            idx2 == idx1 + 2 + l1
            l2 == Uint16(b, idx2)
            t2 == t1 + l2
        IN  IF Len(b) < t2 + l2 THEN Fail(ErrPayloadTooShort, s2) ELSE
        LET s3 == [s2 EXCEPT !.UID = Slice(b, idx2 + 2, idx2 + 2 + l2)]
            idx3 == idx2 + 2 + l2
            l3 == Uint16(b, idx3)
            t3 == t2 + l3
        IN  IF Len(b) < t3 THEN Fail(ErrPayloadTooShort, s3) ELSE
        LET s4 == [s3 EXCEPT !.GID = Slice(b, idx3 + 2, idx3 + 2 + l3)]
            idx4 == idx3 + 2 + l3
            l4 == Uint16(b, idx4)
            t4 == t3 + l4
        IN  IF Len(b) < t4 THEN Fail(ErrPayloadTooShort, s4) ELSE
            Ok([s4 EXCEPT !.MUID = Slice(b, idx4 + 2, idx4 + 2 + l4)])

Stat_MarshalBinary(s) ==
    LET l == 2 + 2 + 4 + 13 + 4 + 4 + 4 + 8 + 2 + 2 + 2 + 2
               + Len(s.Name) + Len(s.UID) + Len(s.GID) + Len(s.MUID)
        b0 == PutUint16(MakeBytes(l), 0, l - 2)
        b1 == PutUint32(PutUint16(b0, 2, s.Type), 4, s.Dev)
        b2 == PutQid(b1, 8, s.Qid)
        b3 == PutUint32(PutUint32(PutUint32(b2, 21, s.Mode), 25, s.Atime), 29, s.Mtime)
        b4 == PutUint64(b3, 33, s.Length)
        i1 == 41
        b5 == CopyAt(PutUint16(b4, i1, Len(s.Name)), i1 + 2, s.Name)
        i2 == i1 + 2 + Len(s.Name)
        b6 == CopyAt(PutUint16(b5, i2, Len(s.UID)), i2 + 2, s.UID)
        i3 == i2 + 2 + Len(s.UID)
        b7 == CopyAt(PutUint16(b6, i3, Len(s.GID)), i3 + 2, s.GID)
        i4 == i3 + 2 + Len(s.GID)
    IN  CopyAt(PutUint16(b7, i4, Len(s.MUID)), i4 + 2, s.MUID)

----------------------------------------------------------------------------
(* 9P2000 messages (9p.go) *)

\* A string field: 2-byte length at b[idx], then the bytes
StrLen(b, idx) == Uint16(b, idx)
StrAt(b, idx, l) == Slice(b, idx + 2, idx + 2 + l)
PutStr(b, idx, str) == CopyAt(PutUint16(b, idx, Len(str)), idx + 2, str)

VersionRequest_UnmarshalBinary(m, b) ==
    LET t == 2 + 4 + 2 IN
    IF Len(b) < t THEN Fail(ErrPayloadTooShort, m) ELSE
    LET m1 == [m EXCEPT !.Tag = Uint16(b, 0), !.MessageSize = Uint32(b, 2)]
        l == StrLen(b, 6)
    IN  IF Len(b) < t + l THEN Fail(ErrPayloadTooShort, m1)
        ELSE Ok([m1 EXCEPT !.Version = StrAt(b, 6, l)])

VersionRequest_MarshalBinary(m) ==
    LET b == MakeBytes(2 + 4 + 2 + Len(m.Version))
    IN  CopyAt(PutUint16(PutUint32(PutUint16(b, 0, m.Tag), 2, m.MessageSize),
                         6, Len(m.Version)), 8, m.Version)

VersionResponse_UnmarshalBinary(m, b) ==
    LET t == 2 + 4 + 2 IN
    IF Len(b) < t THEN Fail(ErrPayloadTooShort, m) ELSE
    LET m1 == [m EXCEPT !.Tag = Uint16(b, 0), !.MessageSize = Uint32(b, 2)]
        l == StrLen(b, 6)
    IN  IF Len(b) < t + l THEN Fail(ErrPayloadTooShort, m1)
        ELSE Ok([m1 EXCEPT !.Version = StrAt(b, 6, l)])

VersionResponse_MarshalBinary(m) ==
    LET b == MakeBytes(2 + 4 + 2 + Len(m.Version))
    IN  CopyAt(PutUint16(PutUint32(PutUint16(b, 0, m.Tag), 2, m.MessageSize),
                         6, Len(m.Version)), 8, m.Version)

AuthRequest_UnmarshalBinary(m, b) ==
    LET t == 2 + 4 + 2 + 2 IN
    IF Len(b) < t THEN Fail(ErrPayloadTooShort, m) ELSE
    LET m1 == [m EXCEPT !.Tag = Uint16(b, 0), !.AuthFid = Uint32(b, 2)]
        l1 == StrLen(b, 6)
    IN  IF Len(b) < t + l1 THEN Fail(ErrPayloadTooShort, m1) ELSE
    LET m2 == [m1 EXCEPT !.Username = StrAt(b, 6, l1)]
        idx == 6 + 2 + l1
        l2 == StrLen(b, idx)
    IN  IF Len(b) < t + l1 + l2 THEN Fail(ErrPayloadTooShort, m2)
        ELSE Ok([m2 EXCEPT !.Service = StrAt(b, idx, l2)])

AuthRequest_MarshalBinary(m) ==
    LET b == MakeBytes(2 + 4 + 2 + Len(m.Username) + 2 + Len(m.Service))
        b1 == PutUint32(PutUint16(b, 0, m.Tag), 2, m.AuthFid)
        b2 == PutStr(b1, 6, m.Username)
    IN  PutStr(b2, 6 + 2 + Len(m.Username), m.Service)

AuthResponse_UnmarshalBinary(m, b) ==
    IF Len(b) < 2 + 13 THEN Fail(ErrPayloadTooShort, m)
    ELSE Ok([m EXCEPT !.Tag = Uint16(b, 0), !.AuthQid = QidAt(b, 2)])

AuthResponse_MarshalBinary(m) ==
    PutQid(PutUint16(MakeBytes(2 + 13), 0, m.Tag), 2, m.AuthQid)

AttachRequest_UnmarshalBinary(m, b) ==
    LET t == 2 + 4 + 4 + 2 + 2 IN
    IF Len(b) < t THEN Fail(ErrPayloadTooShort, m) ELSE
    LET m1 == [m EXCEPT !.Tag = Uint16(b, 0), !.Fid = Uint32(b, 2),
                        !.AuthFid = Uint32(b, 6)]
        l1 == StrLen(b, 10)
    IN  IF Len(b) < t + l1 THEN Fail(ErrPayloadTooShort, m1) ELSE
    LET m2 == [m1 EXCEPT !.Username = StrAt(b, 10, l1)]
        idx == 10 + 2 + l1
        l2 == StrLen(b, idx)
    IN  IF Len(b) < t + l1 + l2 THEN Fail(ErrPayloadTooShort, m2)
        ELSE Ok([m2 EXCEPT !.Service = StrAt(b, idx, l2)])

AttachRequest_MarshalBinary(m) ==
    LET b == MakeBytes(2 + 4 + 4 + 2 + Len(m.Username) + 2 + Len(m.Service))
        b1 == PutUint32(PutUint32(PutUint16(b, 0, m.Tag), 2, m.Fid), 6, m.AuthFid)
        b2 == PutStr(b1, 10, m.Username)
    IN  PutStr(b2, 10 + 2 + Len(m.Username), m.Service)

AttachResponse_UnmarshalBinary(m, b) ==
    IF Len(b) < 2 + 13 THEN Fail(ErrPayloadTooShort, m)
    ELSE Ok([m EXCEPT !.Tag = Uint16(b, 0), !.Qid = QidAt(b, 2)])

AttachResponse_MarshalBinary(m) ==
    PutQid(PutUint16(MakeBytes(2 + 13), 0, m.Tag), 2, m.Qid)

ErrorResponse_UnmarshalBinary(m, b) ==
    LET t == 2 + 2 IN
    IF Len(b) < t THEN Fail(ErrPayloadTooShort, m) ELSE
    LET m1 == [m EXCEPT !.Tag = Uint16(b, 0)]
        l == StrLen(b, 2)
    IN  IF Len(b) < t + l THEN Fail(ErrPayloadTooShort, m1)
        ELSE Ok([m1 EXCEPT !.Error = Slice(b, 4, 4 + l)])

ErrorResponse_MarshalBinary(m) ==
    PutStr(PutUint16(MakeBytes(2 + 2 + Len(m.Error)), 0, m.Tag), 2, m.Error)

FlushRequest_UnmarshalBinary(m, b) ==
    IF Len(b) < 2 + 2 THEN Fail(ErrPayloadTooShort, m)
    ELSE Ok([m EXCEPT !.Tag = Uint16(b, 0), !.OldTag = Uint16(b, 2)])

FlushRequest_MarshalBinary(m) ==
    PutUint16(PutUint16(MakeBytes(2 + 2), 0, m.Tag), 2, m.OldTag)

\* FlushResponse, ClunkResponse, RemoveResponse, WriteStatResponse: tag[2]
TagOnly_UnmarshalBinary(m, b) ==
    IF Len(b) < 2 THEN Fail(ErrPayloadTooShort, m)
    ELSE Ok([m EXCEPT !.Tag = Uint16(b, 0)])

TagOnly_MarshalBinary(m) == PutUint16(MakeBytes(2), 0, m.Tag)

\* The names loop of WalkRequest and of the .e requests: names[i] for i >= n
\* are still to read, idx is the read position and t the running length check.
RECURSIVE ReadNames(_, _, _, _, _)
ReadNames(b, n, idx, t, names) ==
    IF n = 0 THEN [err |-> ErrNil, names |-> names, idx |-> idx, t |-> t]
    ELSE IF Len(b) < t + 2
         THEN [err |-> ErrPayloadTooShort, names |-> names \o [i \in 1..n |-> <<>>],
               idx |-> idx, t |-> t]
    ELSE LET l == Uint16(b, idx) IN
         IF Len(b) < t + 2 + l
         THEN [err |-> ErrPayloadTooShort, names |-> names \o [i \in 1..n |-> <<>>],
               idx |-> idx, t |-> t]
         ELSE ReadNames(b, n - 1, idx + 2 + l, t + 2 + l,
                        Append(names, Slice(b, idx + 2, idx + 2 + l)))

RECURSIVE NamesLength(_)
NamesLength(names) ==
    IF names = <<>> THEN 0 ELSE 2 + Len(Head(names)) + NamesLength(Tail(names))

RECURSIVE PutNames(_, _, _)
PutNames(b, idx, names) ==
    IF names = <<>> THEN b
    ELSE PutNames(PutStr(b, idx, Head(names)), idx + 2 + Len(Head(names)), Tail(names))

WalkRequest_UnmarshalBinary(m, b) ==
    LET t == 2 + 4 + 4 + 2 IN
    IF Len(b) < t THEN Fail(ErrPayloadTooShort, m) ELSE
    LET m1 == [m EXCEPT !.Tag = Uint16(b, 0), !.Fid = Uint32(b, 2),
                        !.NewFid = Uint32(b, 6)]
        r == ReadNames(b, Uint16(b, 10), 12, t, <<>>)
    IN  [err |-> r.err, m |-> [m1 EXCEPT !.Names = r.names]]

WalkRequest_MarshalBinary(m) ==
    LET b == MakeBytes(2 + 4 + 4 + 2 + NamesLength(m.Names))
        b1 == PutUint32(PutUint32(PutUint16(b, 0, m.Tag), 2, m.Fid), 6, m.NewFid)
    IN  PutNames(PutUint16(b1, 10, Len(m.Names)), 12, m.Names)

\* The qid loop of WalkResponse.UnmarshalBinary: idx is never advanced.
WalkResponse_UnmarshalBinary(m, b) ==
    LET t == 2 + 2 IN
    IF Len(b) < t THEN Fail(ErrPayloadTooShort, m) ELSE
    LET m1 == [m EXCEPT !.Tag = Uint16(b, 0)]
        l == Uint16(b, 2)
        idx == 4
    IN  IF Len(b) < t + l * 13 THEN Fail(ErrPayloadTooShort, m1)
        ELSE Ok([m1 EXCEPT !.Qids = [i \in 1..l |-> QidAt(b, idx)]])

RECURSIVE PutQids(_, _, _)
PutQids(b, idx, qids) ==
    IF qids = <<>> THEN b
    ELSE PutQids(PutQid(b, idx, Head(qids)), idx + 13, Tail(qids))

WalkResponse_MarshalBinary(m) ==
    LET b == MakeBytes(2 + 2 + 13 * Len(m.Qids))
    IN  PutQids(PutUint16(PutUint16(b, 0, m.Tag), 2, Len(m.Qids)), 4, m.Qids)

OpenRequest_UnmarshalBinary(m, b) ==
    IF Len(b) < 2 + 4 + 1 THEN Fail(ErrPayloadTooShort, m)
    ELSE Ok([m EXCEPT !.Tag = Uint16(b, 0), !.Fid = Uint32(b, 2), !.Mode = b[7]])

OpenRequest_MarshalBinary(m) ==
    PutByte(PutUint32(PutUint16(MakeBytes(2 + 4 + 1), 0, m.Tag), 2, m.Fid), 6, m.Mode)

OpenResponse_UnmarshalBinary(m, b) ==
    IF Len(b) < 2 + 13 + 4 THEN Fail(ErrPayloadTooShort, m)
    ELSE Ok([m EXCEPT !.Tag = Uint16(b, 0), !.Qid = QidAt(b, 2),
                      !.IOUnit = Uint32(b, 15)])

OpenResponse_MarshalBinary(m) ==
    PutUint32(PutQid(PutUint16(MakeBytes(2 + 13 + 4), 0, m.Tag), 2, m.Qid), 15, m.IOUnit)

CreateRequest_UnmarshalBinary(m, b) ==
    LET t == 2 + 4 + 2 + 4 + 1 IN
    IF Len(b) < t THEN Fail(ErrPayloadTooShort, m) ELSE
    LET m1 == [m EXCEPT !.Tag = Uint16(b, 0), !.Fid = Uint32(b, 2)]
        l == Uint16(b, 6)
    IN  IF Len(b) < t + l THEN Fail(ErrPayloadTooShort, m1) ELSE
        LET idx == 8 + l
        IN  Ok([m1 EXCEPT !.Name = Slice(b, 8, 8 + l),
                          !.Permissions = Uint32(b, idx), !.Mode = b[idx + 4 + 1]])

CreateRequest_MarshalBinary(m) ==
    LET b == MakeBytes(2 + 4 + 2 + Len(m.Name) + 4 + 1)
        b1 == PutUint16(PutUint32(PutUint16(b, 0, m.Tag), 2, m.Fid), 6, Len(m.Name))
        b2 == CopyAt(b1, 8, m.Name)
        idx == 8 + Len(m.Name)
    IN  PutByte(PutUint32(b2, idx, m.Permissions), idx + 4, m.Mode)

\* CreateResponse reads and writes the qid type at b[3], under the version.
CreateResponse_UnmarshalBinary(m, b) ==
    IF Len(b) < 2 + 13 + 4 THEN Fail(ErrPayloadTooShort, m)
    ELSE Ok([m EXCEPT !.Tag = Uint16(b, 0),
                      !.Qid = [Type |-> b[3 + 1], Version |-> Uint32(b, 3),
                               Path |-> Uint64(b, 7)],
                      !.IOUnit = Uint32(b, 15)])

CreateResponse_MarshalBinary(m) ==
    LET b == PutUint16(MakeBytes(2 + 13 + 4), 0, m.Tag)
        b1 == PutByte(b, 3, m.Qid.Type)
        b2 == PutUint32(b1, 3, m.Qid.Version)
    IN  PutUint32(PutUint64(b2, 7, m.Qid.Path), 15, m.IOUnit)

ReadRequest_UnmarshalBinary(m, b) ==
    IF Len(b) < 2 + 4 + 8 + 4 THEN Fail(ErrPayloadTooShort, m)
    ELSE Ok([m EXCEPT !.Tag = Uint16(b, 0), !.Fid = Uint32(b, 2),
                      !.Offset = Uint64(b, 6), !.Count = Uint32(b, 14)])

ReadRequest_MarshalBinary(m) ==
    PutUint32(PutUint64(PutUint32(PutUint16(MakeBytes(2 + 4 + 8 + 4), 0, m.Tag),
                                  2, m.Fid), 6, m.Offset), 14, m.Count)

\* An UnmarshalBinary that keeps a sub-slice of b for Data instead of a copy:
\* shares names the bounds of the sub-slice in b
ReadResponse_UnmarshalBinary_Alias(m, b) ==
    IF Len(b) < 2 + 4 THEN Fail(ErrPayloadTooShort, m) ELSE
    LET m1 == [m EXCEPT !.Tag = Uint16(b, 0)]
        l == Uint32(b, 2)
    IN  IF Len(b) < 2 + 4 + l THEN Fail(ErrPayloadTooShort, m1)
        ELSE Ok([m1 EXCEPT !.Data = Slice(b, 6, 6 + l)] @@ [shares |-> <<6, 6 + l>>])

\* make([]byte, l) and copy: Data is storage of its own
ReadResponse_UnmarshalBinary(m, b) ==
    IF Len(b) < 2 + 4 THEN Fail(ErrPayloadTooShort, m) ELSE
    LET m1 == [m EXCEPT !.Tag = Uint16(b, 0)]
        l == Uint32(b, 2)
    IN  IF Len(b) < 2 + 4 + l THEN Fail(ErrPayloadTooShort, m1)
        ELSE Ok([m1 EXCEPT !.Data = Slice(b, 6, 6 + l)])

ReadResponse_MarshalBinary(m) ==
    LET b == MakeBytes(2 + 4 + Len(m.Data))
    IN  CopyAt(PutUint32(PutUint16(b, 0, m.Tag), 2, Len(m.Data)), 6, m.Data)

WriteRequest_UnmarshalBinary(m, b) ==
    LET t == 2 + 4 + 8 + 4 IN
    IF Len(b) < t THEN Fail(ErrPayloadTooShort, m) ELSE
    LET m1 == [m EXCEPT !.Tag = Uint16(b, 0), !.Fid = Uint32(b, 2),
                        !.Offset = Uint64(b, 6)]
        l == Uint32(b, 14)
    IN  IF Len(b) < t + l THEN Fail(ErrPayloadTooShort, m1)
        ELSE Ok([m1 EXCEPT !.Data = Slice(b, 18, 18 + l)])

WriteRequest_MarshalBinary(m) ==
    LET b == MakeBytes(2 + 4 + 8 + 4 + Len(m.Data))
        b1 == PutUint64(PutUint32(PutUint16(b, 0, m.Tag), 2, m.Fid), 6, m.Offset)
    IN  CopyAt(PutUint32(b1, 14, Len(m.Data)), 18, m.Data)

WriteResponse_UnmarshalBinary(m, b) ==
    IF Len(b) < 2 + 4 THEN Fail(ErrPayloadTooShort, m)
    ELSE Ok([m EXCEPT !.Tag = Uint16(b, 0), !.Count = Uint32(b, 2)])

WriteResponse_MarshalBinary(m) ==
    PutUint32(PutUint16(MakeBytes(2 + 4), 0, m.Tag), 2, m.Count)

\* ClunkRequest, RemoveRequest, StatRequest: tag[2] fid[4]
TagFid_UnmarshalBinary(m, b) ==
    IF Len(b) < 2 + 4 THEN Fail(ErrPayloadTooShort, m)
    ELSE Ok([m EXCEPT !.Tag = Uint16(b, 0), !.Fid = Uint32(b, 2)])

TagFid_MarshalBinary(m) ==
    PutUint32(PutUint16(MakeBytes(2 + 4), 0, m.Tag), 2, m.Fid)

StatResponse_UnmarshalBinary(m, b) ==
    IF Len(b) < 2 + 2 THEN Fail(ErrPayloadTooShort, m) ELSE
    LET m1 == [m EXCEPT !.Tag = Uint16(b, 0)]
        r == Stat_UnmarshalBinary(m.Stat, Slice(b, 4, Len(b)))
    IN  [err |-> r.err, m |-> [m1 EXCEPT !.Stat = r.m]]

StatResponse_MarshalBinary(m) ==
    LET x == Stat_MarshalBinary(m.Stat)
        b == MakeBytes(2 + 2 + Len(x))
    IN  CopyAt(PutUint16(PutUint16(b, 0, m.Tag), 2, Len(x)), 4, x)

WriteStatRequest_UnmarshalBinary(m, b) ==
    IF Len(b) < 2 + 4 + 2 THEN Fail(ErrPayloadTooShort, m) ELSE
    LET m1 == [m EXCEPT !.Tag = Uint16(b, 0), !.Fid = Uint32(b, 2)]
        r == Stat_UnmarshalBinary(m.Stat, Slice(b, 8, Len(b)))
    IN  [err |-> r.err, m |-> [m1 EXCEPT !.Stat = r.m]]

WriteStatRequest_MarshalBinary(m) ==
    LET x == Stat_MarshalBinary(m.Stat)
        b == MakeBytes(2 + 4 + 2 + Len(x))
    IN  CopyAt(PutUint16(PutUint32(PutUint16(b, 0, m.Tag), 2, m.Fid), 6, Len(x)), 8, x)

----------------------------------------------------------------------------
(* io helpers of the Encode/Decode codecs (9P2000.u): a reader is the      *)
(* sequence of bytes it still holds; a read yields [err, v, rest].         *)

ErrEOF == "EOF"
ErrUnexpectedEOF == "unexpected EOF"

\* io.ReadFull(r, b) with len(b) = n on a reader that holds r and then ends
read(r, n) ==
    IF n = 0 THEN [err |-> ErrNil, v |-> <<>>, rest |-> r]
    ELSE IF Len(r) >= n THEN [err |-> ErrNil, v |-> SubSeq(r, 1, n),
                              rest |-> SubSeq(r, n + 1, Len(r))]
    ELSE IF Len(r) = 0 THEN [err |-> ErrEOF, v |-> <<>>, rest |-> r]
    ELSE [err |-> ErrUnexpectedEOF, v |-> r, rest |-> <<>>]

readUint(r, w) ==
    LET Value(x) == [x EXCEPT !.v = IF x.err = ErrNil THEN LEValue(x.v) ELSE 0]
    IN  Value(read(r, w))

readString(r) ==
    LET Bytes(x) == [x EXCEPT !.v = IF x.err = ErrNil THEN x.v ELSE <<>>]
        Sized(l) == IF l.err # ErrNil THEN [l EXCEPT !.v = <<>>]
                    ELSE Bytes(read(l.rest, l.v))
    IN  Sized(readUint(r, 2))

writeUint(v, w) == LEBytes(v, w)
writeUint16(v) == LEBytes(v % 65536, 2)
writeString(str) == writeUint16(Len(str)) \o str

Qid_Decode(r) ==
    LET Path(a, b, c) == [c EXCEPT !.v = [Type |-> a.v, Version |-> b.v, Path |-> c.v]]
        Version(a, b) == IF b.err # ErrNil THEN [b EXCEPT !.v = [ZeroQid EXCEPT !.Type = a.v]]
                         ELSE Path(a, b, readUint(b.rest, 8))
        Type(a) == IF a.err # ErrNil THEN [a EXCEPT !.v = ZeroQid]
                   ELSE Version(a, readUint(a.rest, 4))
    IN  Type(readUint(r, 1))

Qid_Encode(q) == writeUint(q.Type, 1) \o writeUint(q.Version, 4) \o writeUint(q.Path, 8)

\* One field read of a Decode method: kind is "u8", "u16", "u32", "u64",
\* "str", "qid", or "skip16" (a length that is read and dropped).
ReadField(kind, r) ==
    CASE kind = "u8"  -> readUint(r, 1)
      [] kind = "u16" -> readUint(r, 2)
      [] kind = "skip16" -> readUint(r, 2)
      [] kind = "u32" -> readUint(r, 4)
      [] kind = "u64" -> readUint(r, 8)
      [] kind = "str" -> readString(r)
      [] kind = "qid" -> Qid_Decode(r)

\* A Decode method: the fields are read in order, the first error returns.
RECURSIVE DecodeFields(_, _, _)
DecodeFields(m, r, fields) ==
    IF fields = <<>> THEN [err |-> ErrNil, m |-> m, rest |-> r]
    ELSE LET Then(x, m1) ==
                 IF x.err # ErrNil THEN [err |-> x.err, m |-> m1, rest |-> x.rest]
                 ELSE DecodeFields(m1, x.rest, Tail(fields))
             Store(f, x) ==
                 Then(x, IF f[2] = "skip16" \/ (x.err # ErrNil /\ f[2] # "qid") THEN m
                         ELSE [m EXCEPT ![f[1]] = x.v])
             Field(f) == Store(f, ReadField(f[2], r))
         IN  Field(Head(fields))

WriteField(kind, v) ==
    CASE kind = "u8"  -> writeUint(v, 1)
      [] kind = "u16" -> writeUint16(v)
      [] kind = "u32" -> writeUint(v, 4)
      [] kind = "u64" -> writeUint(v, 8)
      [] kind = "str" -> writeString(v)
      [] kind = "qid" -> Qid_Encode(v)

\* An Encode method on a writer that accepts every byte.
RECURSIVE EncodeFields(_, _)
EncodeFields(m, fields) ==
    IF fields = <<>> THEN <<>>
    ELSE WriteField(Head(fields)[2], m[Head(fields)[1]]) \o EncodeFields(m, Tail(fields))

----------------------------------------------------------------------------
(* 9P2000.u (9pdotu.go) *)

ZeroStatDotu == [Type |-> 0, Dev |-> 0, Qid |-> ZeroQid, Mode |-> 0, Atime |-> 0,
                 Mtime |-> 0, Length |-> 0, Name |-> <<>>, UID |-> <<>>,
                 GID |-> <<>>, MUID |-> <<>>, Extensions |-> <<>>,
                 UIDno |-> 0, GIDno |-> 0, MUIDno |-> 0]

StatDotu_EncodedLength(s) ==
    2 + 2 + 4 + 13 + 4 + 4 + 4 + 8 + 8 + Len(s.Name) + Len(s.UID) + Len(s.GID)
      + Len(s.MUID) + 2 + Len(s.Extensions) + 4 + 4 + 4

StatDotu_Decode(s, r) ==
    DecodeFields(s, r, << <<"_", "skip16">>, <<"Type", "u16">>, <<"Dev", "u32">>,
        <<"Qid", "qid">>, <<"Mode", "u32">>, <<"Atime", "u32">>, <<"Mtime", "u32">>,
        <<"Length", "u64">>, <<"Name", "str">>, <<"UID", "str">>, <<"GID", "str">>,
        <<"MUID", "str">>, <<"Extensions", "str">>, <<"UIDno", "u32">>,
        <<"GIDno", "u32">>, <<"MUIDno", "u32">> >>)

StatDotu_Encode(s) ==
    writeUint16(StatDotu_EncodedLength(s) - 2) \o
    EncodeFields(s, << <<"Type", "u16">>, <<"Dev", "u32">>,
        <<"Qid", "qid">>, <<"Mode", "u32">>, <<"Atime", "u32">>, <<"Mtime", "u32">>,
        <<"Length", "u64">>, <<"Name", "str">>, <<"UID", "str">>, <<"GID", "str">>,
        <<"MUID", "str">>, <<"Extensions", "str">>, <<"UIDno", "u32">>,
        <<"GIDno", "u32">>, <<"MUIDno", "u32">> >>)

AuthRequestDotu_Decode(m, r) ==
    DecodeFields(m, r, << <<"Tag", "u16">>, <<"AuthFid", "u32">>, <<"Username", "str">>,
                          <<"Service", "str">>, <<"UIDno", "u32">> >>)

AuthRequestDotu_Encode(m) ==
    EncodeFields(m, << <<"Tag", "u16">>, <<"AuthFid", "u32">>, <<"Username", "str">>,
                       <<"Service", "str">>, <<"UIDno", "u32">> >>)

AttachRequestDotu_Decode(m, r) ==
    DecodeFields(m, r, << <<"Tag", "u16">>, <<"Fid", "u32">>, <<"AuthFid", "u32">>,
                          <<"Username", "str">>, <<"Service", "str">>, <<"UIDno", "u32">> >>)

AttachRequestDotu_Encode(m) ==
    EncodeFields(m, << <<"Tag", "u16">>, <<"Fid", "u32">>, <<"AuthFid", "u32">>,
                       <<"Username", "str">>, <<"Service", "str">>, <<"UIDno", "u32">> >>)

ErrorResponseDotu_Decode(m, r) ==
    DecodeFields(m, r, << <<"Tag", "u16">>, <<"Error", "str">>, <<"Errno", "u32">> >>)

ErrorResponseDotu_Encode(m) ==
    EncodeFields(m, << <<"Tag", "u16">>, <<"Error", "str">>, <<"Errno", "u32">> >>)

CreateRequestDotu_Decode(m, r) ==
    DecodeFields(m, r, << <<"Tag", "u16">>, <<"Fid", "u32">>, <<"Name", "str">>,
                          <<"Permissions", "u32">>, <<"Mode", "u8">>,
                          <<"Extensions", "str">> >>)

CreateRequestDotu_Encode(m) ==
    EncodeFields(m, << <<"Tag", "u16">>, <<"Fid", "u32">>, <<"Name", "str">>,
                       <<"Permissions", "u32">>, <<"Mode", "u8">>,
                       <<"Extensions", "str">> >>)

StatResponseDotu_Decode(m, r) ==
    LET Stat(h, x) == [err |-> x.err, m |-> [h.m EXCEPT !.Stat = x.m], rest |-> x.rest]
        Header(h) == IF h.err # ErrNil THEN h
                     ELSE Stat(h, StatDotu_Decode(m.Stat, h.rest))
    IN  Header(DecodeFields(m, r, << <<"Tag", "u16">>, <<"_", "skip16">> >>))

StatResponseDotu_Encode(m) ==
    EncodeFields(m, << <<"Tag", "u16">> >>)
      \o writeUint16(StatDotu_EncodedLength(m.Stat)) \o StatDotu_Encode(m.Stat)

WriteStatRequestDotu_Decode(m, r) ==
    LET Stat(h, x) == [err |-> x.err, m |-> [h.m EXCEPT !.Stat = x.m], rest |-> x.rest]
        Header(h) == IF h.err # ErrNil THEN h
                     ELSE Stat(h, StatDotu_Decode(m.Stat, h.rest))
    IN  Header(DecodeFields(m, r, << <<"Tag", "u16">>, <<"Fid", "u32">>, <<"_", "skip16">> >>))

WriteStatRequestDotu_Encode(m) ==
    EncodeFields(m, << <<"Tag", "u16">>, <<"Fid", "u32">> >>)
      \o writeUint16(StatDotu_EncodedLength(m.Stat)) \o StatDotu_Encode(m.Stat)

----------------------------------------------------------------------------
(* 9P2000.e (9pdote.go) *)

SessionRequestDote_UnmarshalBinary(m, b) ==
    IF Len(b) < 2 + 8 THEN Fail(ErrPayloadTooShort, m)
    ELSE Ok([m EXCEPT !.Tag = Uint16(b, 0), !.Key = Slice(b, 2, 10)])

SessionRequestDote_MarshalBinary(m) ==
    CopyAt(PutUint16(MakeBytes(2 + 8), 0, m.Tag), 2, m.Key)

SimpleReadRequestDote_UnmarshalBinary(m, b) ==
    LET t == 2 + 4 + 2 IN
    IF Len(b) < t THEN Fail(ErrPayloadTooShort, m) ELSE
    LET m1 == [m EXCEPT !.Tag = Uint16(b, 0), !.Fid = Uint32(b, 2)]
        r == ReadNames(b, Uint16(b, 6), 8, t, <<>>)
    IN  [err |-> r.err, m |-> [m1 EXCEPT !.Names = r.names]]

SimpleReadRequestDote_MarshalBinary(m) ==
    LET b == MakeBytes(2 + 4 + 2 + NamesLength(m.Names))
        b1 == PutUint32(PutUint16(b, 0, m.Tag), 2, m.Fid)
    IN  PutNames(PutUint16(b1, 6, Len(m.Names)), 8, m.Names)

SimpleReadResponseDote_UnmarshalBinary(m, b) ==
    IF Len(b) < 2 + 4 THEN Fail(ErrPayloadTooShort, m) ELSE
    LET m1 == [m EXCEPT !.Tag = Uint16(b, 0)]
        l == Uint32(b, 2)
    IN  IF Len(b) < 2 + 4 + l THEN Fail(ErrPayloadTooShort, m1)
        ELSE Ok([m1 EXCEPT !.Data = Slice(b, 6, 6 + l)])

SimpleReadResponseDote_MarshalBinary(m) ==
    LET b == MakeBytes(2 + 4 + Len(m.Data))
    IN  CopyAt(PutUint32(PutUint16(b, 0, m.Tag), 2, Len(m.Data)), 6, m.Data)

SimpleWriteRequestDote_UnmarshalBinary(m, b) ==
    LET t == 2 + 4 + 2 + 4 IN
    IF Len(b) < t THEN Fail(ErrPayloadTooShort, m) ELSE
    LET m1 == [m EXCEPT !.Tag = Uint16(b, 0), !.Fid = Uint32(b, 2)]
        r == ReadNames(b, Uint16(b, 6), 8, t, <<>>)
        m2 == [m1 EXCEPT !.Names = r.names]
    IN  IF r.err # ErrNil THEN Fail(r.err, m2) ELSE
        LET l == Uint32(b, r.idx)
        IN  IF Len(b) < r.t + l THEN Fail(ErrPayloadTooShort, m2)
            ELSE Ok([m2 EXCEPT !.Data = Slice(b, r.idx + 4, r.idx + 4 + l)])

SimpleWriteRequestDote_MarshalBinary(m) ==
    LET b == MakeBytes(2 + 4 + 2 + 4 + Len(m.Data) + NamesLength(m.Names))
        b1 == PutUint32(PutUint16(b, 0, m.Tag), 2, m.Fid)
        b2 == PutNames(PutUint16(b1, 6, Len(m.Names)), 8, m.Names)
        idx == 8 + NamesLength(m.Names)
    IN  CopyAt(PutUint32(b2, idx, Len(m.Data)), idx + 4, m.Data)

SessionResponseDote_UnmarshalBinary(m, b) ==
    IF Len(b) < 2 THEN Fail(ErrPayloadTooShort, m)
    ELSE Ok([m EXCEPT !.Tag = Uint16(b, 0)])

SessionResponseDote_MarshalBinary(m) == PutUint16(MakeBytes(2), 0, m.Tag)

SimpleWriteResponseDote_UnmarshalBinary(m, b) ==
    IF Len(b) < 2 + 4 THEN Fail(ErrPayloadTooShort, m)
    ELSE Ok([m EXCEPT !.Tag = Uint16(b, 0), !.Count = Uint32(b, 2)])

SimpleWriteResponseDote_MarshalBinary(m) ==
    PutUint32(PutUint16(MakeBytes(2 + 4), 0, m.Tag), 2, m.Count)

----------------------------------------------------------------------------
(* The Message interface: a message value is a record whose field         *)
(* "variant" names its Go type.                                           *)

BaseVariants ==
    {"VersionRequest", "VersionResponse", "AuthRequest", "AuthResponse",
     "AttachRequest", "AttachResponse", "ErrorResponse", "FlushRequest",
     "FlushResponse", "WalkRequest", "WalkResponse", "OpenRequest",
     "OpenResponse", "CreateRequest", "CreateResponse", "ReadRequest",
     "ReadResponse", "WriteRequest", "WriteResponse", "ClunkRequest",
     "ClunkResponse", "RemoveRequest", "RemoveResponse", "StatRequest",
     "StatResponse", "WriteStatRequest", "WriteStatResponse"}

DotuVariants ==
    {"AuthRequestDotu", "AttachRequestDotu", "ErrorResponseDotu",
     "CreateRequestDotu", "StatResponseDotu", "WriteStatRequestDotu"}

DoteVariants ==
    {"SessionRequestDote", "SessionResponseDote", "SimpleReadRequestDote",
     "SimpleReadResponseDote", "SimpleWriteRequestDote", "SimpleWriteResponseDote"}

Variants == BaseVariants \cup DotuVariants \cup DoteVariants

\* &T{}: the zero value of the variant
New(v) ==
    CASE v \in {"VersionRequest", "VersionResponse"} ->
            [variant |-> v, Tag |-> 0, MessageSize |-> 0, Version |-> <<>>]
      [] v = "AuthRequest" ->
            [variant |-> v, Tag |-> 0, AuthFid |-> 0, Username |-> <<>>, Service |-> <<>>]
      [] v = "AuthResponse" -> [variant |-> v, Tag |-> 0, AuthQid |-> ZeroQid]
      [] v = "AttachRequest" ->
            [variant |-> v, Tag |-> 0, Fid |-> 0, AuthFid |-> 0, Username |-> <<>>,
             Service |-> <<>>]
      [] v \in {"AttachResponse"} -> [variant |-> v, Tag |-> 0, Qid |-> ZeroQid]
      [] v = "ErrorResponse" -> [variant |-> v, Tag |-> 0, Error |-> <<>>]
      [] v = "FlushRequest" -> [variant |-> v, Tag |-> 0, OldTag |-> 0]
      [] v \in {"FlushResponse", "ClunkResponse", "RemoveResponse",
                "WriteStatResponse", "SessionResponseDote"} -> [variant |-> v, Tag |-> 0]
      [] v = "WalkRequest" ->
            [variant |-> v, Tag |-> 0, Fid |-> 0, NewFid |-> 0, Names |-> <<>>]
      [] v = "WalkResponse" -> [variant |-> v, Tag |-> 0, Qids |-> <<>>]
      [] v = "OpenRequest" -> [variant |-> v, Tag |-> 0, Fid |-> 0, Mode |-> 0]
      [] v \in {"OpenResponse", "CreateResponse"} ->
            [variant |-> v, Tag |-> 0, Qid |-> ZeroQid, IOUnit |-> 0]
      [] v = "CreateRequest" ->
            [variant |-> v, Tag |-> 0, Fid |-> 0, Name |-> <<>>, Permissions |-> 0,
             Mode |-> 0]
      [] v = "ReadRequest" ->
            [variant |-> v, Tag |-> 0, Fid |-> 0, Offset |-> 0, Count |-> 0]
      [] v \in {"ReadResponse", "SimpleReadResponseDote"} ->
            [variant |-> v, Tag |-> 0, Data |-> <<>>]
      [] v = "WriteRequest" ->
            [variant |-> v, Tag |-> 0, Fid |-> 0, Offset |-> 0, Data |-> <<>>]
      [] v \in {"WriteResponse", "SimpleWriteResponseDote"} ->
            [variant |-> v, Tag |-> 0, Count |-> 0]
      [] v \in {"ClunkRequest", "RemoveRequest", "StatRequest"} ->
            [variant |-> v, Tag |-> 0, Fid |-> 0]
      [] v = "StatResponse" -> [variant |-> v, Tag |-> 0, Stat |-> ZeroStat]
      [] v = "WriteStatRequest" ->
            [variant |-> v, Tag |-> 0, Fid |-> 0, Stat |-> ZeroStat]
      [] v = "AuthRequestDotu" ->
            [variant |-> v, Tag |-> 0, AuthFid |-> 0, Username |-> <<>>,
             Service |-> <<>>, UIDno |-> 0]
      [] v = "AttachRequestDotu" ->
            [variant |-> v, Tag |-> 0, Fid |-> 0, AuthFid |-> 0, Username |-> <<>>,
             Service |-> <<>>, UIDno |-> 0]
      [] v = "ErrorResponseDotu" ->
            [variant |-> v, Tag |-> 0, Error |-> <<>>, Errno |-> 0]
      [] v = "CreateRequestDotu" ->
            [variant |-> v, Tag |-> 0, Fid |-> 0, Name |-> <<>>, Permissions |-> 0,
             Mode |-> 0, Extensions |-> <<>>]
      [] v = "StatResponseDotu" -> [variant |-> v, Tag |-> 0, Stat |-> ZeroStatDotu]
      [] v = "WriteStatRequestDotu" ->
            [variant |-> v, Tag |-> 0, Fid |-> 0, Stat |-> ZeroStatDotu]
      [] v = "SessionRequestDote" ->
            [variant |-> v, Tag |-> 0, Key |-> MakeBytes(8)]
      [] v = "SimpleReadRequestDote" ->
            [variant |-> v, Tag |-> 0, Fid |-> 0, Names |-> <<>>]
      [] v = "SimpleWriteRequestDote" ->
            [variant |-> v, Tag |-> 0, Fid |-> 0, Names |-> <<>>, Data |-> <<>>]

\* m.MarshalBinary() by the dynamic type of m.  The 9P2000.u variants
\* serialise through their Encode method.
MarshalBinary(m) ==
    LET v == m.variant IN
    CASE v = "VersionRequest" -> VersionRequest_MarshalBinary(m)
      [] v = "VersionResponse" -> VersionResponse_MarshalBinary(m)
      [] v = "AuthRequest" -> AuthRequest_MarshalBinary(m)
      [] v = "AuthResponse" -> AuthResponse_MarshalBinary(m)
      [] v = "AttachRequest" -> AttachRequest_MarshalBinary(m)
      [] v = "AttachResponse" -> AttachResponse_MarshalBinary(m)
      [] v = "ErrorResponse" -> ErrorResponse_MarshalBinary(m)
      [] v = "FlushRequest" -> FlushRequest_MarshalBinary(m)
      [] v \in {"FlushResponse", "ClunkResponse", "RemoveResponse",
                "WriteStatResponse"} -> TagOnly_MarshalBinary(m)
      [] v = "WalkRequest" -> WalkRequest_MarshalBinary(m)
      [] v = "WalkResponse" -> WalkResponse_MarshalBinary(m)
      [] v = "OpenRequest" -> OpenRequest_MarshalBinary(m)
      [] v = "OpenResponse" -> OpenResponse_MarshalBinary(m)
      [] v = "CreateRequest" -> CreateRequest_MarshalBinary(m)
      [] v = "CreateResponse" -> CreateResponse_MarshalBinary(m)
      [] v = "ReadRequest" -> ReadRequest_MarshalBinary(m)
      [] v = "ReadResponse" -> ReadResponse_MarshalBinary(m)
      [] v = "WriteRequest" -> WriteRequest_MarshalBinary(m)
      [] v = "WriteResponse" -> WriteResponse_MarshalBinary(m)
      [] v \in {"ClunkRequest", "RemoveRequest", "StatRequest"} -> TagFid_MarshalBinary(m)
      [] v = "StatResponse" -> StatResponse_MarshalBinary(m)
      [] v = "WriteStatRequest" -> WriteStatRequest_MarshalBinary(m)
      [] v = "AuthRequestDotu" -> AuthRequestDotu_Encode(m)
      [] v = "AttachRequestDotu" -> AttachRequestDotu_Encode(m)
      [] v = "ErrorResponseDotu" -> ErrorResponseDotu_Encode(m)
      [] v = "CreateRequestDotu" -> CreateRequestDotu_Encode(m)
      [] v = "StatResponseDotu" -> StatResponseDotu_Encode(m)
      [] v = "WriteStatRequestDotu" -> WriteStatRequestDotu_Encode(m)
      [] v = "SessionRequestDote" -> SessionRequestDote_MarshalBinary(m)
      [] v = "SessionResponseDote" -> SessionResponseDote_MarshalBinary(m)
      [] v = "SimpleReadRequestDote" -> SimpleReadRequestDote_MarshalBinary(m)
      [] v = "SimpleReadResponseDote" -> SimpleReadResponseDote_MarshalBinary(m)
      [] v = "SimpleWriteRequestDote" -> SimpleWriteRequestDote_MarshalBinary(m)
      [] v = "SimpleWriteResponseDote" -> SimpleWriteResponseDote_MarshalBinary(m)

\* The result of a Decode on a reader over b, as [err, m]
FromDecode(x) == [err |-> x.err, m |-> x.m]

\* m.UnmarshalBinary(b) by the dynamic type of m: [err, m] with m as the
\* call leaves the receiver.
UnmarshalBinary(m, b) ==
    LET v == m.variant IN
    CASE v = "VersionRequest" -> VersionRequest_UnmarshalBinary(m, b)
      [] v = "VersionResponse" -> VersionResponse_UnmarshalBinary(m, b)
      [] v = "AuthRequest" -> AuthRequest_UnmarshalBinary(m, b)
      [] v = "AuthResponse" -> AuthResponse_UnmarshalBinary(m, b)
      [] v = "AttachRequest" -> AttachRequest_UnmarshalBinary(m, b)
      [] v = "AttachResponse" -> AttachResponse_UnmarshalBinary(m, b)
      [] v = "ErrorResponse" -> ErrorResponse_UnmarshalBinary(m, b)
      [] v = "FlushRequest" -> FlushRequest_UnmarshalBinary(m, b)
      [] v \in {"FlushResponse", "ClunkResponse", "RemoveResponse",
                "WriteStatResponse"} -> TagOnly_UnmarshalBinary(m, b)
      [] v = "WalkRequest" -> WalkRequest_UnmarshalBinary(m, b)
      [] v = "WalkResponse" -> WalkResponse_UnmarshalBinary(m, b)
      [] v = "OpenRequest" -> OpenRequest_UnmarshalBinary(m, b)
      [] v = "OpenResponse" -> OpenResponse_UnmarshalBinary(m, b)
      [] v = "CreateRequest" -> CreateRequest_UnmarshalBinary(m, b)
      [] v = "CreateResponse" -> CreateResponse_UnmarshalBinary(m, b)
      [] v = "ReadRequest" -> ReadRequest_UnmarshalBinary(m, b)
      [] v = "ReadResponse" -> ReadResponse_UnmarshalBinary(m, b)
      [] v = "WriteRequest" -> WriteRequest_UnmarshalBinary(m, b)
      [] v = "WriteResponse" -> WriteResponse_UnmarshalBinary(m, b)
      [] v \in {"ClunkRequest", "RemoveRequest", "StatRequest"} -> TagFid_UnmarshalBinary(m, b)
      [] v = "StatResponse" -> StatResponse_UnmarshalBinary(m, b)
      [] v = "WriteStatRequest" -> WriteStatRequest_UnmarshalBinary(m, b)
      [] v = "AuthRequestDotu" -> FromDecode(AuthRequestDotu_Decode(m, b))
      [] v = "AttachRequestDotu" -> FromDecode(AttachRequestDotu_Decode(m, b))
      [] v = "ErrorResponseDotu" -> FromDecode(ErrorResponseDotu_Decode(m, b))
      [] v = "CreateRequestDotu" -> FromDecode(CreateRequestDotu_Decode(m, b))
      [] v = "StatResponseDotu" -> FromDecode(StatResponseDotu_Decode(m, b))
      [] v = "WriteStatRequestDotu" -> FromDecode(WriteStatRequestDotu_Decode(m, b))
      [] v = "SessionRequestDote" -> SessionRequestDote_UnmarshalBinary(m, b)
      [] v = "SessionResponseDote" -> SessionResponseDote_UnmarshalBinary(m, b)
      [] v = "SimpleReadRequestDote" -> SimpleReadRequestDote_UnmarshalBinary(m, b)
      [] v = "SimpleReadResponseDote" -> SimpleReadResponseDote_UnmarshalBinary(m, b)
      [] v = "SimpleWriteRequestDote" -> SimpleWriteRequestDote_UnmarshalBinary(m, b)
      [] v = "SimpleWriteResponseDote" -> SimpleWriteResponseDote_UnmarshalBinary(m, b)

----------------------------------------------------------------------------
(* Protocol tables.  Message yields [err, m], MessageType [err, mt].      *)

\* The nil Message
NilMessage == [variant |-> "nil"]

\* nineP2000.Message
NineP2000_Message(mt) ==
    CASE mt = Tversion -> Ok(New("VersionRequest"))
      [] mt = Rversion -> Ok(New("VersionResponse"))
      [] mt = Tauth -> Ok(New("AuthRequest"))
      [] mt = Rauth -> Ok(New("AuthResponse"))
      [] mt = Tattach -> Ok(New("AttachRequest"))
      [] mt = Rattach -> Ok(New("AttachResponse"))
      [] mt = Tflush -> Ok(New("FlushRequest"))
      [] mt = Rflush -> Ok(New("FlushResponse"))
      [] mt = Twalk -> Ok(New("WalkRequest"))
      [] mt = Rwalk -> Ok(New("WalkResponse"))
      [] mt = Topen -> Ok(New("OpenRequest"))
      [] mt = Ropen -> Ok(New("OpenResponse"))
      [] mt = Tcreate -> Ok(New("CreateRequest"))
      [] mt = Rcreate -> Ok(New("CreateResponse"))
      [] mt = Tread -> Ok(New("ReadRequest"))
      [] mt = Rread -> Ok(New("ReadResponse"))
      [] mt = Twrite -> Ok(New("WriteRequest"))
      [] mt = Rwrite -> Ok(New("WriteResponse"))
      [] mt = Tclunk -> Ok(New("ClunkRequest"))
      [] mt = Rclunk -> Ok(New("ClunkResponse"))
      [] mt = Tremove -> Ok(New("RemoveRequest"))
      [] mt = Rremove -> Ok(New("RemoveResponse"))
      [] mt = Tstat -> Ok(New("StatRequest"))
      [] mt = Rstat -> Ok(New("StatResponse"))
      [] mt = Twstat -> Ok(New("WriteStatRequest"))
      [] mt = Rwstat -> Ok(New("WriteStatResponse"))
      [] mt = Rerror -> Ok(New("ErrorResponse"))
      [] OTHER -> Fail(ErrUnknownMessageType, NilMessage)

\* nineP2000.MessageType; v is the dynamic type of the message
NineP2000_MessageType(v) ==
    CASE v = "VersionRequest" -> [err |-> ErrNil, mt |-> Tversion]
      [] v = "VersionResponse" -> [err |-> ErrNil, mt |-> Rversion]
      [] v = "AuthRequest" -> [err |-> ErrNil, mt |-> Tauth]
      [] v = "AuthResponse" -> [err |-> ErrNil, mt |-> Rauth]
      [] v = "AttachRequest" -> [err |-> ErrNil, mt |-> Tattach]
      [] v = "AttachResponse" -> [err |-> ErrNil, mt |-> Rattach]
      [] v = "FlushRequest" -> [err |-> ErrNil, mt |-> Tflush]
      [] v = "FlushResponse" -> [err |-> ErrNil, mt |-> Rflush]
      [] v = "WalkRequest" -> [err |-> ErrNil, mt |-> Twalk]
      [] v = "WalkResponse" -> [err |-> ErrNil, mt |-> Rwalk]
      [] v = "OpenRequest" -> [err |-> ErrNil, mt |-> Topen]
      [] v = "OpenResponse" -> [err |-> ErrNil, mt |-> Ropen]
      [] v = "CreateRequest" -> [err |-> ErrNil, mt |-> Tcreate]
      [] v = "CreateResponse" -> [err |-> ErrNil, mt |-> Rcreate]
      [] v = "ReadRequest" -> [err |-> ErrNil, mt |-> Tread]
      [] v = "ReadResponse" -> [err |-> ErrNil, mt |-> Rread]
      [] v = "WriteRequest" -> [err |-> ErrNil, mt |-> Twrite]
      [] v = "WriteResponse" -> [err |-> ErrNil, mt |-> Rwrite]
      [] v = "ClunkRequest" -> [err |-> ErrNil, mt |-> Tclunk]
      [] v = "ClunkResponse" -> [err |-> ErrNil, mt |-> Rclunk]
      [] v = "RemoveRequest" -> [err |-> ErrNil, mt |-> Tremove]
      [] v = "RemoveResponse" -> [err |-> ErrNil, mt |-> Rremove]
      [] v = "StatRequest" -> [err |-> ErrNil, mt |-> Tstat]
      [] v = "StatResponse" -> [err |-> ErrNil, mt |-> Rstat]
      [] v = "WriteStatRequest" -> [err |-> ErrNil, mt |-> Twstat]
      [] v = "WriteStatResponse" -> [err |-> ErrNil, mt |-> Rwstat]
      [] v = "ErrorResponse" -> [err |-> ErrNil, mt |-> Rerror]
      [] OTHER -> [err |-> ErrUnknownMessageType, mt |-> NoType]

NineP2000Dotu_Message(mt) ==
    CASE mt = Tauth -> Ok(New("AuthRequestDotu"))
      [] mt = Tattach -> Ok(New("AttachRequestDotu"))
      [] mt = Rerror -> Ok(New("ErrorResponseDotu"))
      [] mt = Tcreate -> Ok(New("CreateRequestDotu"))
      [] mt = Rstat -> Ok(New("StatResponseDotu"))
      [] mt = Twstat -> Ok(New("WriteStatRequestDotu"))
      [] OTHER -> NineP2000_Message(mt)

\* A 9P2000.u MessageType that knows the base variants only
NineP2000Dotu_MessageType_Base(v) == NineP2000_MessageType(v)

\* nineP2000Dotu.MessageType
NineP2000Dotu_MessageType(v) ==
    CASE v = "AuthRequestDotu" -> [err |-> ErrNil, mt |-> Tauth]
      [] v = "AttachRequestDotu" -> [err |-> ErrNil, mt |-> Tattach]
      [] v = "ErrorResponseDotu" -> [err |-> ErrNil, mt |-> Rerror]
      [] v = "CreateRequestDotu" -> [err |-> ErrNil, mt |-> Tcreate]
      [] v = "StatResponseDotu" -> [err |-> ErrNil, mt |-> Rstat]
      [] v = "WriteStatRequestDotu" -> [err |-> ErrNil, mt |-> Twstat]
      [] OTHER -> NineP2000_MessageType(v)

\* A 9P2000.e Message without its own codes
NineP2000Dote_Message_Base(mt) == NineP2000_Message(mt)

\* nineP2000Dote.Message
NineP2000Dote_Message(mt) ==
    CASE mt = Tsession -> Ok(New("SessionRequestDote"))
      [] mt = Rsession -> Ok(New("SessionResponseDote"))
      [] mt = Tsread -> Ok(New("SimpleReadRequestDote"))
      [] mt = Rsread -> Ok(New("SimpleReadResponseDote"))
      [] mt = Tswrite -> Ok(New("SimpleWriteRequestDote"))
      [] mt = Rswrite -> Ok(New("SimpleWriteResponseDote"))
      [] OTHER -> NineP2000_Message(mt)

NineP2000Dote_MessageType(v) ==
    CASE v = "SessionRequestDote" -> [err |-> ErrNil, mt |-> Tsession]
      [] v = "SessionResponseDote" -> [err |-> ErrNil, mt |-> Rsession]
      [] v = "SimpleReadRequestDote" -> [err |-> ErrNil, mt |-> Tsread]
      [] v = "SimpleReadResponseDote" -> [err |-> ErrNil, mt |-> Rsread]
      [] v = "SimpleWriteRequestDote" -> [err |-> ErrNil, mt |-> Tswrite]
      [] v = "SimpleWriteResponseDote" -> [err |-> ErrNil, mt |-> Rswrite]
      [] OTHER -> NineP2000_MessageType(v)

Protocols == {"NineP2000", "NineP2000Dotu", "NineP2000Dote"}

\* A table that takes the reserved code Terror for the code of ErrorResponse
Message_Terror(p, mt) ==
    IF mt = Terror THEN Ok(New("ErrorResponse"))
    ELSE CASE p = "NineP2000" -> NineP2000_Message(mt)
           [] p = "NineP2000Dotu" -> NineP2000Dotu_Message(mt)
           [] p = "NineP2000Dote" -> NineP2000Dote_Message(mt)

\* p.Message(mt) through the Protocol interface
Message(p, mt) ==
    CASE p = "NineP2000" -> NineP2000_Message(mt)
      [] p = "NineP2000Dotu" -> NineP2000Dotu_Message(mt)
      [] p = "NineP2000Dote" -> NineP2000Dote_Message(mt)

\* A Message implemented outside the package: the default case of every table
AlienMessage == [variant |-> "alien", Tag |-> 0]

\* p.MessageType(m)
MessageType(p, m) ==
    LET v == m.variant IN
    CASE p = "NineP2000" -> NineP2000_MessageType(v)
      [] p = "NineP2000Dotu" -> NineP2000Dotu_MessageType(v)
      [] p = "NineP2000Dote" -> NineP2000Dote_MessageType(v)

----------------------------------------------------------------------------
(* Decoder (container.go).  A decoder value d holds the fields of the     *)
(* struct; buffer = <<>> stands for the nil buffer (MessageSize > 0).      *)

ErrBufferNotEmpty == "buffer is not empty"

\* &Decoder{Protocol: p, Greedy: g, MessageSize: ms}
NewDecoder(p, g, ms) ==
    [Protocol |-> p, Greedy |-> g, MessageSize |-> ms, total |-> 0, needed |-> 0,
     size |-> 0, ptr |-> 0, m |-> NilMessage, buffer |-> <<>>]

\* d.Reset(): [err, d]
Reset(d) ==
    IF Sub32(d.total, d.ptr) # 0 THEN [err |-> ErrBufferNotEmpty, d |-> d]
    ELSE [err |-> ErrNil,
          d |-> [d EXCEPT !.total = 0, !.size = 0, !.ptr = 0, !.m = NilMessage,
                          !.buffer = MakeBytes(d.MessageSize), !.needed = HeaderSize]]

\* What one ReadMessage call has done so far, besides its Go locals:
\* hsize, the size field of a header it parsed (-1: none); s, the body length
\* it computed from it (-1: none); mt, the type byte it handed to the
\* Protocol (-1: none); unm, whether it called UnmarshalBinary; at, the
\* offset in d.buffer of the slice it handed to UnmarshalBinary (-1: none, or
\* a slice of a buffer of its own); reads, the number of Reader.Read calls
\* greedyRead made in it, counted up to ReadsCap; ready, the index in the stream of the frame that was complete in the
\* buffer at the read position when it started (0: none); took, the bytes
\* the ReadFull calls of simpleRead took from the Reader in it; exam, the
\* decoding state greedyRead found when it examined the header that it
\* rejected with ErrMessageTooBig (<<>>: it rejected none).
NewCall(pc) ==
    [pc |-> pc, readerr |-> ErrNil, b |-> <<>>, want |-> 0, m |-> NilMessage,
     hsize |-> -1, s |-> -1, mt |-> -1, unm |-> FALSE, at |-> -1,
     reads |-> 0, ready |-> 0, took |-> 0, exam |-> <<>>]

\* The decoding state of d: the fields a ReadMessage call works on
DecodingState(d) ==
    [total |-> d.total, ptr |-> d.ptr, needed |-> d.needed, size |-> d.size,
     m |-> d.m, buffer |-> d.buffer]

\* A header branch that compares the size with the buffer after it has
\* taken the header
GreedyHeader_Late(d, c) ==
    LET Typed(s, size, r) ==
            LET d1 == [d EXCEPT !.size = size, !.needed = d.needed + size,
                                !.ptr = d.ptr + HeaderSize, !.m = r.m]
                c2 == [c EXCEPT !.hsize = s, !.s = size, !.mt = d.buffer[d.ptr + 4 + 1]]
            IN  IF s > Len(d.buffer)
                THEN [ret |-> "return", err |-> ErrMessageTooBig, m |-> NilMessage,
                      d |-> [d1 EXCEPT !.m = NilMessage],
                      c |-> [c EXCEPT !.hsize = s, !.exam = DecodingState(d)]]
                ELSE IF r.err # ErrNil
                THEN [ret |-> "return", err |-> r.err, m |-> NilMessage,
                      d |-> d1, c |-> c2]
                ELSE [ret |-> "loop", err |-> ErrNil, m |-> NilMessage,
                      d |-> d1, c |-> c2]
        Sized(s) ==
            Typed(s, Sub32(s, HeaderSize), Message(d.Protocol, d.buffer[d.ptr + 4 + 1]))
    IN  IF d.ptr + HeaderSize > Len(d.buffer)
        THEN [ret |-> "panic", err |-> "panic", m |-> NilMessage, d |-> d, c |-> c]
        ELSE Sized(Uint32(d.buffer, d.ptr))

\* greedyRead, header branch of the inner loop (d.m == nil):
\* [ret, err, m, d, c] with ret "loop" (go round again), "return" or "panic"
GreedyHeader(d, c) ==
    LET Typed(s, size, r) ==
            LET d1 == [d EXCEPT !.size = size, !.needed = d.needed + size,
                                !.ptr = d.ptr + HeaderSize, !.m = r.m]
                c2 == [c EXCEPT !.hsize = s, !.s = size, !.mt = d.buffer[d.ptr + 4 + 1]]
            IN  IF r.err # ErrNil
                THEN [ret |-> "return", err |-> r.err, m |-> NilMessage,
                      d |-> d1, c |-> c2]
                ELSE [ret |-> "loop", err |-> ErrNil, m |-> NilMessage,
                      d |-> d1, c |-> c2]
        Sized(s) ==
            IF s > Len(d.buffer)
            THEN [ret |-> "return", err |-> ErrMessageTooBig, m |-> NilMessage,
                  d |-> d, c |-> [c EXCEPT !.hsize = s, !.exam = DecodingState(d)]]
            ELSE Typed(s, Sub32(s, HeaderSize), Message(d.Protocol, d.buffer[d.ptr + 4 + 1]))
    IN  IF d.ptr + HeaderSize > Len(d.buffer)
        THEN [ret |-> "panic", err |-> "panic", m |-> NilMessage, d |-> d, c |-> c]
        ELSE Sized(Uint32(d.buffer, d.ptr))

\* A body branch that sets needed to the size of a header instead of adding
\* the size of a header to it
GreedyBody_Assign(d, c) ==
    LET Decoded(r) ==
            IF r.err # ErrNil
            THEN [ret |-> "return", err |-> r.err, m |-> NilMessage,
                  d |-> [d EXCEPT !.m = r.m], c |-> [c EXCEPT !.unm = TRUE, !.at = d.ptr]]
            ELSE [ret |-> "return", err |-> ErrNil, m |-> r.m,
                  d |-> [d EXCEPT !.needed = HeaderSize,
                                  !.ptr = d.ptr + d.size, !.size = 0, !.m = NilMessage],
                  c |-> [c EXCEPT !.unm = TRUE, !.at = d.ptr]]
    IN  IF d.ptr + d.size > Len(d.buffer)
        THEN [ret |-> "panic", err |-> "panic", m |-> NilMessage, d |-> d, c |-> c]
        ELSE Decoded(UnmarshalBinary(d.m, Slice(d.buffer, d.ptr, d.ptr + d.size)))

\* A body branch that looks ahead: when the header of the next frame is in
\* the buffer already, it is parsed before the message is returned
GreedyBody_Eager(d, c) ==
    LET Ahead(d1, h) == IF d1.needed <= 0 /\ h.ret = "loop" THEN h.d ELSE d1
        Done(r, d1) ==
            [ret |-> "return", err |-> ErrNil, m |-> r.m,
             d |-> Ahead(d1, GreedyHeader(d1, c)), c |-> [c EXCEPT !.unm = TRUE, !.at = d.ptr]]
        Decoded(r) ==
            IF r.err # ErrNil
            THEN [ret |-> "return", err |-> r.err, m |-> NilMessage,
                  d |-> [d EXCEPT !.m = r.m], c |-> [c EXCEPT !.unm = TRUE, !.at = d.ptr]]
            ELSE Done(r, [d EXCEPT !.needed = d.needed + HeaderSize,
                                   !.ptr = d.ptr + d.size, !.size = 0, !.m = NilMessage])
    IN  IF d.ptr + d.size > Len(d.buffer)
        THEN [ret |-> "panic", err |-> "panic", m |-> NilMessage, d |-> d, c |-> c]
        ELSE Decoded(UnmarshalBinary(d.m, Slice(d.buffer, d.ptr, d.ptr + d.size)))

\* greedyRead, body branch of the inner loop (d.m != nil)
GreedyBody(d, c) ==
    LET Decoded(r) ==
            IF r.err # ErrNil
            THEN [ret |-> "return", err |-> r.err, m |-> NilMessage,
                  d |-> [d EXCEPT !.m = r.m], c |-> [c EXCEPT !.unm = TRUE, !.at = d.ptr]]
            ELSE [ret |-> "return", err |-> ErrNil, m |-> r.m,
                  d |-> [d EXCEPT !.needed = d.needed + HeaderSize,
                                  !.ptr = d.ptr + d.size, !.size = 0, !.m = NilMessage],
                  c |-> [c EXCEPT !.unm = TRUE, !.at = d.ptr]]
    IN  IF d.ptr + d.size > Len(d.buffer)
        THEN [ret |-> "panic", err |-> "panic", m |-> NilMessage, d |-> d, c |-> c]
        ELSE Decoded(UnmarshalBinary(d.m, Slice(d.buffer, d.ptr, d.ptr + d.size)))

\* An inner loop that is entered only when more than the bytes asked for have
\* been read (for d.needed < 0)
RECURSIVE GreedyDrain_Strict(_, _)
GreedyDrain_Strict(d, c) ==
    LET Again(x) == IF x.ret = "loop" THEN GreedyDrain_Strict(x.d, x.c) ELSE x
    IN  IF d.needed >= 0
        THEN [ret |-> "read", err |-> ErrNil, m |-> NilMessage, d |-> d, c |-> c]
        ELSE Again(IF d.m = NilMessage THEN GreedyHeader(d, c) ELSE GreedyBody(d, c))

\* greedyRead: for d.needed <= 0 { ... }; ret "read" when the loop is left
RECURSIVE GreedyDrain(_, _)
GreedyDrain(d, c) ==
    LET Again(x) == IF x.ret = "loop" THEN GreedyDrain(x.d, x.c) ELSE x
    IN  IF d.needed > 0
        THEN [ret |-> "read", err |-> ErrNil, m |-> NilMessage, d |-> d, c |-> c]
        ELSE Again(IF d.m = NilMessage THEN GreedyHeader(d, c) ELSE GreedyBody(d, c))

\* The cleanup without its copy: the offsets are reset, the bytes stay
GreedyCompact_NoCopy(d) ==
    IF d.needed > Len(d.buffer) - d.total
    THEN [d EXCEPT !.total = d.total - d.ptr, !.ptr = 0]
    ELSE d

\* greedyRead: the buffer cleanup before a Read
GreedyCompact(d) ==
    IF d.needed > Len(d.buffer) - d.total
    THEN [d EXCEPT !.buffer = CopyAt(d.buffer, 0, Slice(d.buffer, d.ptr, d.total)),
                   !.total = d.total - d.ptr, !.ptr = 0]
    ELSE d

----------------------------------------------------------------------------
(* Sample values of the message fields *)

SampleQids == {[Type |-> 128, Version |-> 7, Path |-> 66051],
               [Type |-> 0, Version |-> 515, Path |-> 1]}

SampleStats ==
    {[Type |-> 1, Dev |-> 2, Qid |-> q, Mode |-> 420, Atime |-> 3, Mtime |-> 4,
      Length |-> 5, Name |-> <<110>>, UID |-> u, GID |-> <<103>>, MUID |-> <<>>] :
        q \in SampleQids, u \in {<<>>, <<117, 118>>}}

SampleStatsDotu ==
    {[Type |-> 1, Dev |-> 2, Qid |-> q, Mode |-> 420, Atime |-> 3, Mtime |-> 4,
      Length |-> 5, Name |-> <<110>>, UID |-> u, GID |-> <<103>>, MUID |-> <<>>,
      Extensions |-> <<101>>, UIDno |-> 6, GIDno |-> 7, MUIDno |-> 8] :
        q \in SampleQids, u \in {<<>>, <<117, 118>>}}

SampleStrings == {<<>>, <<97>>, <<98, 99>>}

FieldValues(f, v) ==
    CASE f = "Tag" -> {1, 65535}
      [] f \in {"Fid", "AuthFid", "NewFid"} -> {16909060}
      [] f \in {"MessageSize", "IOUnit", "Permissions", "Count", "Offset",
                "UIDno", "Errno"} -> {0, 258}
      [] f = "OldTag" -> {0, 258}
      [] f = "Mode" -> {3}
      [] f \in {"Version", "Username", "Service", "Error", "Name", "Data",
                "Extensions"} -> SampleStrings
      [] f = "Names" -> {<<>>, <<<<97>>>>, <<<<97>>, <<98, 99>>>>}
      [] f \in {"Qid", "AuthQid"} -> SampleQids
      [] f = "Qids" -> {<<>>} \cup {<<q>> : q \in SampleQids}
                         \cup {<<p, q>> : p, q \in SampleQids}
      [] f = "Stat" -> IF v \in DotuVariants THEN SampleStatsDotu ELSE SampleStats
      [] f = "Key" -> {<<1, 2, 3, 4, 5, 6, 7, 8>>}

\* The messages that extend each of ms by every choice of the fields fs
RECURSIVE Fill(_, _)
Fill(ms, fs) ==
    IF fs = {} THEN ms
    ELSE LET f == CHOOSE g \in fs : TRUE
         IN  Fill(UNION {{[m EXCEPT ![f] = x] : x \in FieldValues(f, m.variant)} : m \in ms},
                  fs \ {f})

\* The well-formed sample messages of variant v
Messages(v) == Fill({New(v)}, (DOMAIN New(v)) \ {"variant"})

----------------------------------------------------------------------------
(* State *)

VARIABLES
    cm,     \* codec: the message handed to MarshalBinary
    cb,     \* codec: the bytes MarshalBinary returned
    cout,   \* codec: the error and the message UnmarshalBinary left
    cpc,    \* codec: "start", "marshalled", "unmarshalled"
    input,  \* decoder: the kinds of the frames the Readers were given
    active, \* decoder: the decoders that run
    dec,    \* decoder: per decoder, its fields, Reader, current call and results
    enc,    \* encoder: the Encoder, the bytes its Writer received, the calls
    tab,    \* protocol table: the dialect, the lookup made and its results
    app     \* one application of a codec function: its inputs and its result

codecVars == <<cm, cb, cout, cpc>>

decVars == <<input, active, dec>>

vars == <<cm, cb, cout, cpc, input, active, dec, enc, tab, app>>

CodecIdle == cm = NilMessage /\ cb = <<>> /\ cout = Ok(NilMessage) /\ cpc = "off"

DecIdle == input = <<>> /\ active = {} /\ dec = <<>>

EncIdle == enc = <<>>

TabIdle == tab = <<>>

AppIdle == app = <<>>

----------------------------------------------------------------------------
(* Codec: one message is marshalled, then unmarshalled into a fresh value *)

CodecInit ==
    /\ cm \in UNION {Messages(v) : v \in Variants}
    /\ cb = <<>>
    /\ cout = Ok(NilMessage)
    /\ cpc = "start"
    /\ DecIdle /\ EncIdle /\ TabIdle /\ AppIdle

Marshal ==
    /\ cpc = "start"
    /\ cb' = MarshalBinary(cm)
    /\ cpc' = "marshalled"
    /\ UNCHANGED <<cm, cout, decVars, enc, tab, app>>

Unmarshal ==
    /\ cpc = "marshalled"
    /\ cout' = UnmarshalBinary(New(cm.variant), cb)
    /\ cpc' = "unmarshalled"
    /\ UNCHANGED <<cm, cb, decVars, enc, tab, app>>

CodecNext == Marshal \/ Unmarshal

CodecSpec == CodecInit /\ [][CodecNext]_vars

\* C1: unmarshalling the bytes produced by marshalling a well-formed message
\* yields, without error, a message of the same variant with equal fields.
C1_RoundTrip ==
    cpc = "unmarshalled" => cout.err = ErrNil /\ cout.m = cm

----------------------------------------------------------------------------
(* Bounds of the decoder and encoder runs *)

\* Decoder.MessageSize and Encoder.MessageSize of the runs
MSize == 11

\* Frames per input stream
MaxFrames == 2

\* Frames per input stream when two decoders read it side by side
MaxPairFrames == 1

\* Errors other than io.EOF that the Reader raises in a run
MaxFaults == 1

----------------------------------------------------------------------------
(* Frames and the Reader *)

\* The frame of a body: size[4] type[1] body
FrameOf(mt, body) == LEBytes(Len(body) + HeaderSize, 4) \o <<mt>> \o body

\* Kinds of frame an input stream is made of.  "clunk" and "tclunk" are valid
\* frames of at most MSize bytes; "big" is a well-formed frame of MSize + 1
\* bytes; "small" is a header whose size field is 3; "unknown" carries the
\* type Terror; "short" has a body too short for its type; "cut" is a frame
\* that lacks its last byte.  "attachu" is the Tattach frame of 9P2000.u and
\* "read" an Rread frame of one byte of data.
FrameKinds == {"clunk", "tclunk", "big", "small", "unknown", "short", "cut"}

ValidKinds == {"clunk", "tclunk"}

FrameMessage(k) ==
    CASE k = "clunk" -> [New("ClunkResponse") EXCEPT !.Tag = 1]
      [] k = "tclunk" -> [New("ClunkRequest") EXCEPT !.Tag = 2, !.Fid = 772]
      [] k = "big" -> [New("ReadResponse") EXCEPT !.Tag = 3,
                                                  !.Data = [i \in 1..(MSize - 10) |-> i]]
      [] k = "read" -> [New("ReadResponse") EXCEPT !.Tag = 7, !.Data = <<77>>]
      [] k = "attachu" -> [New("AttachRequestDotu") EXCEPT !.Tag = 6, !.Fid = 1,
                                                           !.AuthFid = 2, !.UIDno = 9]
      [] OTHER -> NilMessage

FrameBytes(k) ==
    CASE k \in {"clunk", "tclunk", "big", "read"} ->
            FrameOf(NineP2000_MessageType(FrameMessage(k).variant).mt,
                    MarshalBinary(FrameMessage(k)))
      [] k = "attachu" -> FrameOf(Tattach, MarshalBinary(FrameMessage(k)))
      [] k = "small" -> <<3, 0, 0, 0, Rclunk>>
      [] k = "unknown" -> FrameOf(Terror, <<1, 0>>)
      [] k = "nested" -> FrameOf(Terror, <<16, 0, 0, 0, Rclunk, 1, 0, 0, 0, 0, 0>>)
      [] k = "short" -> FrameOf(Rclunk, <<1>>)
      [] k = "cut" -> <<7, 0, 0, 0, Rclunk, 1>>

RECURSIVE StreamBytes(_)
StreamBytes(ks) == IF ks = <<>> THEN <<>> ELSE FrameBytes(Head(ks)) \o StreamBytes(Tail(ks))

Streams == UNION {[1..n -> FrameKinds] : n \in 0..MaxFrames}

PairStreams == UNION {[1..n -> FrameKinds] : n \in 0..MaxPairFrames}

ErrIO == "io error"

Min(a, b) == IF a < b THEN a ELSE b

\* Reader.Read(p) with len(p) = k on a Reader that still holds rd: the set of
\* results [n, err] the io.Reader contract allows.  fault: the Reader may
\* raise ErrIO on this call, which it does only while it holds bytes; once
\* it holds none it returns io.EOF.
ReaderRead(rd, k, fault) ==
    LET top == Min(k, Len(rd))
    IN  {[n |-> n, err |-> ErrNil] : n \in 1..top}
        \cup (IF k = 0 THEN {[n |-> 0, err |-> ErrNil]} ELSE {})
        \cup (IF Len(rd) <= k THEN {[n |-> Len(rd), err |-> ErrEOF]} ELSE {})
        \cup (IF fault /\ Len(rd) > 0 THEN {[n |-> n, err |-> ErrIO] : n \in 0..top}
              ELSE {})

----------------------------------------------------------------------------
(* Decoder runs.  dec[i] holds the decoder d, the bytes rd its Reader still *)
(* holds, the call c in progress, the results of the finished calls, the   *)
(* number of faults the Reader raised and may raise (budget), and the      *)
(* bookkeeping of read errors:                                             *)
(* owed, the first error the Reader raised that no call has returned yet;  *)
(* stale, whether the call in progress issued a Read while an error was    *)
(* owed; dropped, whether a call that did so returned something else than  *)
(* the error owed.  swapped and reset record what the caller did to the    *)
(* decoder between calls.  starved: greedyRead called Read while a         *)
(* complete frame of the stream waited at ptr; tight: greedyRead called    *)
(* Read with a slice shorter than needed, or empty.  fed is the length of  *)
(* the stream the Reader was given and spans where its frames lie in it.   *)

\* Reader.Read calls of one ReadMessage call are counted up to this number
ReadsCap == 2

\* The start in the stream of its k-th frame
FrameStart(k) == Len(StreamBytes(SubSeq(input, 1, k - 1)))

\* Where the frames of the stream lie in it: start and length of each; a
\* frame that is not whole in the stream has length 0
FrameSpans ==
    [k \in DOMAIN input |->
        [start |-> FrameStart(k),
         len |-> IF input[k] \in {"small", "cut"} THEN 0 ELSE Len(FrameBytes(input[k]))]]

MaxCalls == MaxFrames + 2

NewRun(d, rd, budget) ==
    [d |-> d, rd |-> rd, c |-> NewCall("idle"), returned |-> <<>>, faults |-> 0,
     budget |-> budget, fed |-> Len(rd), spans |-> FrameSpans,
     owed |-> ErrNil, stale |-> FALSE, dropped |-> FALSE, swapped |-> -1,
     starved |-> FALSE, tight |-> FALSE,
     reset |-> [called |-> FALSE, err |-> ErrNil, before |-> d, after |-> d]]

\* return m, err from ReadMessage
Return(r, d, c, err, m) ==
    [r EXCEPT !.d = d,
              !.c = NewCall(IF err = "panic" THEN "panic" ELSE "idle"),
              !.returned = Append(r.returned,
                                  [err |-> err, m |-> m, hsize |-> c.hsize,
                                   s |-> c.s, mt |-> c.mt, unm |-> c.unm, at |-> c.at,
                                   reads |-> c.reads, ready |-> c.ready,
                                   took |-> c.took, exam |-> c.exam,
                                   Protocol |-> d.Protocol]),
              !.owed = IF err = r.owed THEN ErrNil ELSE r.owed,
              !.stale = FALSE,
              !.dropped = r.dropped \/ (r.stale /\ err # r.owed)]

\* The run after Reader.Read returned o: the Reader's bytes and the
\* bookkeeping of read errors
AfterRead(r, o) ==
    [r EXCEPT !.rd = SubSeq(r.rd, o.n + 1, Len(r.rd)),
              !.c = [r.c EXCEPT !.took = r.c.took + o.n],
              !.faults = IF o.err = ErrIO THEN r.faults + 1 ELSE r.faults,
              !.stale = r.stale \/ r.owed # ErrNil,
              !.owed = IF r.owed # ErrNil THEN r.owed ELSE o.err]

\* The index in the stream of the frame that is complete in the buffer of run
\* r and starts at the read position, no message pending (0: there is none).
\* The byte at ptr is the byte of the stream that lies total - ptr before the
\* bytes the Reader still holds.
ReadyFrame(r) ==
    LET Fits(k, d) == /\ r.spans[k].len > 0
                      /\ r.spans[k].start = r.fed - Len(r.rd) - (d.total - d.ptr)
                      /\ r.spans[k].len <= d.total - d.ptr
        Pick(S, d) == IF d.m = NilMessage /\ d.ptr <= d.total /\ S # {}
                      THEN CHOOSE k \in S : TRUE ELSE 0
        Of(d) == Pick({k \in DOMAIN r.spans : Fits(k, d)}, d)
    IN  Of(r.d)

\* ReadMessage is called: the dispatch on Greedy and the start of the mode's
\* function, up to its first use of the buffer or the Reader
ReadMessage(i) ==
    /\ i \in active
    /\ dec[i].c.pc = "idle"
    /\ Len(dec[i].returned) < MaxCalls
    /\ dec' = [dec EXCEPT ![i] =
                 IF dec[i].d.Greedy
                 THEN [dec[i] EXCEPT
                         !.c = [NewCall("greedy") EXCEPT !.ready = ReadyFrame(dec[i])],
                         !.d = IF dec[i].d.buffer = <<>> THEN Reset(dec[i].d).d
                               ELSE dec[i].d]
                 ELSE [dec[i] EXCEPT
                         !.c = [NewCall("header") EXCEPT !.want = HeaderSize]]]
    /\ UNCHANGED <<codecVars, input, active, enc, tab, app>>

\* greedyRead: one round of the outer loop, to a return or through a Read
greedyRead(i) ==
    LET Read(r, x, d2) ==
            \E o \in ReaderRead(r.rd, Len(d2.buffer) - d2.total, r.faults < r.budget) :
                dec' = [dec EXCEPT ![i] =
                   [AfterRead(r, o) EXCEPT
                      !.d = [d2 EXCEPT
                               !.buffer = CopyAt(d2.buffer, d2.total, SubSeq(r.rd, 1, o.n)),
                               !.total = d2.total + o.n,
                               !.needed = d2.needed - o.n],
                      !.c = [x.c EXCEPT !.readerr = o.err, !.reads = Min(x.c.reads + 1, ReadsCap)],
                      !.starved = r.starved \/ ReadyFrame(r) # 0,
                      !.tight = r.tight \/ Len(d2.buffer) - d2.total < d2.needed
                                        \/ Len(d2.buffer) - d2.total < 1]]
        Round(r, x) ==
            IF x.ret # "read"
            THEN dec' = [dec EXCEPT ![i] = Return(r, x.d, x.c, x.err, x.m)]
            ELSE IF r.c.readerr # ErrNil
            THEN dec' = [dec EXCEPT ![i] = Return(r, x.d, x.c, r.c.readerr, NilMessage)]
            ELSE IF x.d.needed > Len(x.d.buffer) - x.d.total /\ x.d.ptr > x.d.total
            THEN dec' = [dec EXCEPT ![i] = Return(r, x.d, x.c, "panic", NilMessage)]
            ELSE Read(r, x, GreedyCompact(x.d))
    IN
    /\ i \in active
    /\ dec[i].c.pc = "greedy"
    /\ Round(dec[i], GreedyDrain(dec[i].d, dec[i].c))
    /\ UNCHANGED <<codecVars, input, active, enc, tab, app>>

\* io.ReadFull after one more Read that returned o with the bytes got, when b
\* holds what the earlier Reads of this ReadFull gave and want bytes are asked:
\* state "full" (return nil), "err" (return err) or "more" (Read again)
ReadFullStep(b, want, o, got) ==
    IF Len(b) + Len(got) >= want
    THEN [state |-> "full", err |-> ErrNil, b |-> b \o got]
    ELSE IF o.err # ErrNil
    THEN [state |-> "err",
          err |-> IF Len(b) + Len(got) > 0 /\ o.err = ErrEOF THEN ErrUnexpectedEOF
                  ELSE o.err,
          b |-> b \o got]
    ELSE [state |-> "more", err |-> ErrNil, b |-> b \o got]

\* simpleRead from the decoded body b on: UnmarshalBinary and return m, err
SimpleFinish(r, b) ==
    LET Decoded(u) == Return(r, r.d, [r.c EXCEPT !.unm = TRUE], u.err, u.m)
    IN  Decoded(UnmarshalBinary(r.c.m, b))

\* A simpleRead that asks for as many body bytes as the size field says
SimpleHeader_WholeSize(r, b) ==
    LET Typed(hsize, s, x) ==
            LET c1 == [r.c EXCEPT !.hsize = hsize, !.s = s, !.mt = b[4 + 1], !.m = x.m,
                                  !.b = <<>>, !.want = hsize, !.pc = "body"]
            IN  IF x.err # ErrNil THEN Return(r, r.d, c1, x.err, NilMessage)
                ELSE IF s = 0 THEN SimpleFinish([r EXCEPT !.c = c1], <<>>)
                ELSE [r EXCEPT !.c = c1]
    IN  Typed(Uint32(b, 0), Sub32(Uint32(b, 0), HeaderSize),
              Message(r.d.Protocol, b[4 + 1]))

\* simpleRead from the complete header b on, up to the Read of the body
SimpleHeader(r, b) ==
    LET Typed(hsize, s, x) ==
            LET c1 == [r.c EXCEPT !.hsize = hsize, !.s = s, !.mt = b[4 + 1], !.m = x.m,
                                  !.b = <<>>, !.want = s, !.pc = "body"]
            IN  IF x.err # ErrNil THEN Return(r, r.d, c1, x.err, NilMessage)
                ELSE IF s = 0 THEN SimpleFinish([r EXCEPT !.c = c1], <<>>)
                ELSE [r EXCEPT !.c = c1]
    IN  Typed(Uint32(b, 0), Sub32(Uint32(b, 0), HeaderSize),
              Message(r.d.Protocol, b[4 + 1]))

\* simpleRead: the run after one Read of a ReadFull gave f
SimpleStep(r1, f) ==
    CASE f.state = "full" ->
            IF r1.c.pc = "header" THEN SimpleHeader(r1, f.b) ELSE SimpleFinish(r1, f.b)
      [] f.state = "err" -> Return(r1, r1.d, r1.c, f.err, NilMessage)
      [] f.state = "more" -> [r1 EXCEPT !.c.b = f.b]

\* simpleRead: one Read of the ReadFull of the header, and what follows it
simpleReadHeader(i) ==
    /\ i \in active
    /\ dec[i].c.pc = "header"
    /\ \E o \in ReaderRead(dec[i].rd, dec[i].c.want - Len(dec[i].c.b),
                           dec[i].faults < dec[i].budget) :
         dec' = [dec EXCEPT ![i] =
                    SimpleStep(AfterRead(dec[i], o),
                               ReadFullStep(dec[i].c.b, dec[i].c.want, o,
                                            SubSeq(dec[i].rd, 1, o.n)))]
    /\ UNCHANGED <<codecVars, input, active, enc, tab, app>>

\* simpleRead: one Read of the ReadFull of the body, and what follows it
simpleReadBody(i) ==
    /\ i \in active
    /\ dec[i].c.pc = "body"
    /\ \E o \in ReaderRead(dec[i].rd, dec[i].c.want - Len(dec[i].c.b),
                           dec[i].faults < dec[i].budget) :
         dec' = [dec EXCEPT ![i] =
                    SimpleStep(AfterRead(dec[i], o),
                               ReadFullStep(dec[i].c.b, dec[i].c.want, o,
                                            SubSeq(dec[i].rd, 1, o.n)))]
    /\ UNCHANGED <<codecVars, input, active, enc, tab, app>>

DecoderNext ==
    \E i \in active :
        \/ ReadMessage(i)
        \/ greedyRead(i)
        \/ simpleReadHeader(i)
        \/ simpleReadBody(i)

\* One decoder, greedy or simple, on a Reader that holds a stream of frames
DecoderInit ==
    /\ CodecIdle /\ EncIdle /\ TabIdle /\ AppIdle
    /\ input \in Streams
    /\ active = {1}
    /\ \E g \in BOOLEAN :
         dec = <<NewRun(NewDecoder("NineP2000", g, MSize), StreamBytes(input),
                        MaxFaults)>>

DecoderSpec == DecoderInit /\ [][DecoderNext]_vars

\* A greedy and a simple decoder, each on its own Reader of the same stream;
\* the Readers raise no error but the end of the stream
PairInit ==
    /\ CodecIdle /\ EncIdle /\ TabIdle /\ AppIdle
    /\ input \in PairStreams
    /\ active = {1, 2}
    /\ dec = <<NewRun(NewDecoder("NineP2000", FALSE, MSize), StreamBytes(input), 0),
               NewRun(NewDecoder("NineP2000", TRUE, MSize), StreamBytes(input), 0)>>

PairSpec == PairInit /\ [][DecoderNext]_vars

----------------------------------------------------------------------------
(* Properties of the decoder *)

\* The decoding of a frame of kind k: what its type's UnmarshalBinary makes
\* of its body
FrameDecoding(k) ==
    LET f == FrameBytes(k)
        x == Message("NineP2000", f[HeaderSize])
    IN  IF x.err # ErrNil THEN x
        ELSE UnmarshalBinary(x.m, SubSeq(f, HeaderSize + 1, Len(f)))

\* The input is a concatenation of valid frames of at most MSize bytes
ValidStream ==
    \A k \in DOMAIN input :
        /\ input[k] \in ValidKinds
        /\ FrameDecoding(input[k]).err = ErrNil
        /\ Len(FrameBytes(input[k])) <= MSize

\* C2: on a stream of valid frames f1..fn and a Reader that raises no error
\* but the end of the stream, however the Reader splits the stream, the k-th
\* ReadMessage call returns the decoding of fk (k <= n), no later call returns
\* a message, and after the n-th call no byte of the stream is left unread.
C2_FramesInOrder ==
    \A i \in active :
        LET r == dec[i]
            n == Len(input)
        IN  (ValidStream /\ r.faults = 0) =>
              /\ \A k \in DOMAIN r.returned :
                    IF k <= n
                    THEN /\ r.returned[k].err = ErrNil
                         /\ r.returned[k].m = FrameDecoding(input[k]).m
                    ELSE /\ r.returned[k].err # ErrNil
                         /\ r.returned[k].m = NilMessage
              /\ Len(r.returned) >= n => r.rd = <<>> /\ r.d.total = r.d.ptr

\* C2 witness: a greedy decoder has returned every frame of a full-length
\* valid stream, and cleaned its buffer up between the header and the body of
\* the last frame
C2_Witness ==
    \E i \in active :
        /\ ValidStream /\ Len(input) = MaxFrames /\ input[1] # input[MaxFrames]
        /\ dec[i].d.Greedy /\ dec[i].faults = 0
        /\ Len(dec[i].returned) = MaxFrames
        /\ dec[i].returned[MaxFrames].err = ErrNil
        /\ dec[i].d.ptr < Len(FrameBytes(input[MaxFrames]))

\* C3: a simple and a greedy decoder of the same Protocol and MessageSize,
\* reading the same stream from Readers that raise no error but the end of
\* the stream, return the same message from their k-th ReadMessage call.
C3_GreedyEqualsSimple ==
    (active = {1, 2} /\ dec[1].faults = 0 /\ dec[2].faults = 0) =>
        \A k \in DOMAIN dec[1].returned \cap DOMAIN dec[2].returned :
            dec[1].returned[k].m = dec[2].returned[k].m

\* C4: a ReadMessage call that parsed a header whose size field exceeds the
\* MessageSize returned ErrMessageTooBig and no message, and did not call
\* UnmarshalBinary, in simple and in greedy mode.
C4_TooBigRejected ==
    \A i \in active :
        \A k \in DOMAIN dec[i].returned :
            LET e == dec[i].returned[k]
            IN  e.hsize > MSize =>
                    e.err = ErrMessageTooBig /\ e.m = NilMessage /\ ~e.unm

\* C5: a ReadMessage call that parsed a header whose size field is below 5
\* returned an error and no message, and computed no body length from it.
C5_TooSmallRejected ==
    \A i \in active :
        \A k \in DOMAIN dec[i].returned :
            LET e == dec[i].returned[k]
            IN  (e.hsize >= 0 /\ e.hsize < HeaderSize) =>
                    e.err # ErrNil /\ e.m = NilMessage /\ e.s = -1

\* C6: in greedy mode no ReadMessage call that went on reading while a read
\* error was owed to the caller has returned anything but that error: a read
\* error is returned, after the frames complete in the buffer, by the first
\* call that finds no complete frame.
C6_ReadErrorKept ==
    \A i \in active : dec[i].d.Greedy => ~dec[i].dropped

----------------------------------------------------------------------------
(* Encoder (container.go): goroutines call WriteMessage on one Encoder.    *)
(* enc holds the Encoder e, the bytes the Writer received (wire) with, for *)
(* each byte, the call that wrote it (owner), the errors the Writer raised *)
(* (faults: one at most, the transport is broken after it), and the calls  *)
(* in the order they were made.                                            *)

\* Goroutines that call WriteMessage
NumCallers == 2

\* WriteMessage calls in a run
MaxWrites == 2

NewEncoder(p, ms) == [Protocol |-> p, MessageSize |-> ms, writeLock |-> 0]

\* Messages handed to WriteMessage: frames of 7, MSize and MSize + 1 bytes of
\* the base dialect, and frames of 7 and 15 bytes of 9P2000.e, which the base
\* table does not know
EncMessages ==
    {FrameMessage("clunk"), FrameMessage("tclunk"), FrameMessage("big"),
     [New("SessionResponseDote") EXCEPT !.Tag = 4],
     [New("SessionRequestDote") EXCEPT !.Tag = 5, !.Key = <<1, 2, 3, 4, 5, 6, 7, 8>>]}

\* Writer.Write(p): the results [n, err] the io.Writer contract allows; n is
\* below len(p) only with an error
WriterWrite(p, fault) ==
    {[n |-> Len(p), err |-> ErrNil]}
    \cup (IF fault THEN {[n |-> n, err |-> ErrIO] : n \in 0..Len(p)} ELSE {})

\* Write(p) of a Writer that accepts between 1 and len(p) bytes of p and
\* returns no error
ShortWrite(p) ==
    IF p = <<>> THEN {[n |-> 0, err |-> ErrNil]}
    ELSE {[n |-> n, err |-> ErrNil] : n \in 1..Len(p)}

\* len(msgbuf)+HeaderSize > int(e.MessageSize)
TooBig_Never(e, msgbuf) == FALSE

TooBig(e, msgbuf) == Len(msgbuf) + HeaderSize > e.MessageSize

\* The header of a frame with the size of the body only
EncodeHeader_BodySize(mt, msgbuf) ==
    PutByte(PutUint32(MakeBytes(HeaderSize), 0, Len(msgbuf)), 4, mt)

\* header: the size of the frame and the type
EncodeHeader(mt, msgbuf) ==
    PutByte(PutUint32(MakeBytes(HeaderSize), 0, Len(msgbuf) + HeaderSize), 4, mt)

\* e.writeLock.Lock() that does not wait for the lock
Lock_NoWait(e, g) == [ok |-> TRUE, e |-> [e EXCEPT !.writeLock = g]]

\* e.writeLock.Lock() by goroutine g: taken if free, else g keeps waiting
Lock(e, g) ==
    IF e.writeLock = 0 THEN [ok |-> TRUE, e |-> [e EXCEPT !.writeLock = g]]
    ELSE [ok |-> FALSE, e |-> e]

\* the deferred e.writeLock.Unlock()
Unlock(e) == [e EXCEPT !.writeLock = 0]

\* A call of WriteMessage(m) by goroutine g; seen: the calls that had
\* returned when it was made; locked: whether it took the lock
NewWrite(g, m, seen) ==
    [g |-> g, m |-> m, pc |-> "lock", err |-> ErrNil, header |-> <<>>,
     msgbuf |-> <<>>, seen |-> seen, locked |-> FALSE]

\* The Writer after a Write of call k that returned o on the bytes p
Written(k, p, o) ==
    [enc EXCEPT !.wire = enc.wire \o SubSeq(p, 1, o.n),
                !.owner = enc.owner \o [x \in 1..o.n |-> k],
                !.faults = IF o.err # ErrNil THEN enc.faults + 1 ELSE enc.faults]

\* e.Writer.Write(p) on the Writer of the run: one that keeps the io.Writer
\* contract, or one that writes short
EncWrite(p) == IF enc.short THEN ShortWrite(p) ELSE WriterWrite(p, enc.faults = 0)

\* WriteMessage up to the Lock: MessageType, MarshalBinary, the size check
\* and the header
WriteMessage(g, m) ==
    LET Checked(c, x, msgbuf) ==
            IF x.err # ErrNil THEN [c EXCEPT !.pc = "done", !.err = x.err]
            ELSE IF TooBig(enc.e, msgbuf)
            THEN [c EXCEPT !.pc = "done", !.err = ErrMessageTooBig]
            ELSE [c EXCEPT !.msgbuf = msgbuf, !.header = EncodeHeader(x.mt, msgbuf)]
    IN
    /\ enc # <<>>
    /\ Len(enc.calls) < MaxWrites
    /\ \A k \in DOMAIN enc.calls : enc.calls[k].g = g => enc.calls[k].pc = "done"
    /\ enc' = [enc EXCEPT !.calls = Append(enc.calls,
                  Checked(NewWrite(g, m, {k \in DOMAIN enc.calls : enc.calls[k].pc = "done"}),
                          MessageType(enc.e.Protocol, m), MarshalBinary(m)))]
    /\ UNCHANGED <<codecVars, decVars, tab, app>>

\* e.writeLock.Lock() returns in call k
WriteLock(k) ==
    LET Locked(l) ==
            /\ l.ok
            /\ enc' = [enc EXCEPT !.e = l.e, !.calls[k].pc = "header",
                                  !.calls[k].locked = TRUE]
    IN
    /\ enc # <<>> /\ k \in DOMAIN enc.calls
    /\ enc.calls[k].pc = "lock"
    /\ Locked(Lock(enc.e, enc.calls[k].g))
    /\ UNCHANGED <<codecVars, decVars, tab, app>>

\* e.Writer.Write(header) in call k, and the return if it fails
WriteHeader(k) ==
    /\ enc # <<>> /\ k \in DOMAIN enc.calls
    /\ enc.calls[k].pc = "header"
    /\ \E o \in EncWrite(enc.calls[k].header) :
          enc' = IF o.err # ErrNil
                 THEN [Written(k, enc.calls[k].header, o) EXCEPT
                          !.e = Unlock(enc.e),
                          !.calls[k].pc = "done", !.calls[k].err = o.err]
                 ELSE [Written(k, enc.calls[k].header, o) EXCEPT !.calls[k].pc = "body"]
    /\ UNCHANGED <<codecVars, decVars, tab, app>>

\* e.Writer.Write(msgbuf) in call k, and the return
WriteBody(k) ==
    /\ enc # <<>> /\ k \in DOMAIN enc.calls
    /\ enc.calls[k].pc = "body"
    /\ \E o \in EncWrite(enc.calls[k].msgbuf) :
          enc' = [Written(k, enc.calls[k].msgbuf, o) EXCEPT
                     !.e = Unlock(enc.e),
                     !.calls[k].pc = "done", !.calls[k].err = o.err]
    /\ UNCHANGED <<codecVars, decVars, tab, app>>

EncoderNext ==
    \/ \E g \in 1..NumCallers : \E m \in EncMessages : WriteMessage(g, m)
    \/ \E k \in 1..MaxWrites : WriteLock(k) \/ WriteHeader(k) \/ WriteBody(k)

EncoderInit ==
    /\ CodecIdle /\ DecIdle /\ TabIdle /\ AppIdle
    /\ enc = [e |-> NewEncoder("NineP2000", MSize), wire |-> <<>>, owner |-> <<>>,
              faults |-> 0, calls |-> <<>>, short |-> FALSE]

EncoderSpec == EncoderInit /\ [][EncoderNext]_vars

----------------------------------------------------------------------------
(* Properties of the encoder *)

\* The positions of the wire that call k wrote
Positions(k) == {p \in DOMAIN enc.owner : enc.owner[p] = k}

\* The bytes between the first and the last byte that call k wrote
Segment(k) ==
    IF Positions(k) = {} THEN <<>>
    ELSE SubSeq(enc.wire,
                CHOOSE p \in Positions(k) : \A q \in Positions(k) : p <= q,
                CHOOSE p \in Positions(k) : \A q \in Positions(k) : q <= p)

\* size[4] type[1] body of message m in the dialect p
FrameOfMessage(p, m) ==
    LEBytes(HeaderSize + Len(MarshalBinary(m)), 4)
      \o <<MessageType(p, m).mt>> \o MarshalBinary(m)

\* Call k has returned nil
Succeeded(k) == enc.calls[k].pc = "done" /\ enc.calls[k].err = ErrNil

\* C7: with goroutines calling WriteMessage concurrently, the bytes of one
\* call lie together on the wire, no byte of another call between them; they
\* are the whole frame of the call once it has returned nil, and up to then a
\* beginning of that frame.
C7_FramesNotInterleaved ==
    enc # <<>> =>
        \A k \in DOMAIN enc.calls :
            /\ \A p, q \in Positions(k) : \A x \in p..q : enc.owner[x] = k
            /\ Succeeded(k) =>
                  Segment(k) = enc.calls[k].header \o enc.calls[k].msgbuf
            /\ Len(Segment(k)) <= HeaderSize + Len(enc.calls[k].msgbuf)
            /\ Segment(k) = SubSeq(enc.calls[k].header \o enc.calls[k].msgbuf,
                                   1, Len(Segment(k)))

\* C7 witness: two calls that overlapped in time have both returned nil, the
\* one made first has its frame behind the frame of the other
C7_Witness ==
    /\ enc # <<>>
    /\ \E j, k \in DOMAIN enc.calls :
          /\ j < k /\ Succeeded(j) /\ Succeeded(k)
          /\ j \notin enc.calls[k].seen
          /\ \A p \in Positions(j) : \A q \in Positions(k) : q < p

\* C8: the bytes written for a message that WriteMessage accepted are the
\* little-endian size 5 + len(body), the type code of the message in the
\* Encoder's Protocol, and the body; the size field is the number of bytes
\* written for the frame; a call made after another had returned writes its
\* frame behind the frame of that call.
C8_FrameLayout ==
    enc # <<>> =>
        \A k \in DOMAIN enc.calls :
            Succeeded(k) =>
                /\ Segment(k) = FrameOfMessage(enc.e.Protocol, enc.calls[k].m)
                /\ LEValue(SubSeq(Segment(k), 1, 4)) = Cardinality(Positions(k))
                /\ \A j \in enc.calls[k].seen :
                      \A p \in Positions(j) : \A q \in Positions(k) : p < q

\* C8 witness: two calls made one after the other have written the whole
\* wire, two different frames back to back
C8_Witness ==
    /\ enc # <<>> /\ Len(enc.calls) = 2
    /\ Succeeded(1) /\ Succeeded(2) /\ 1 \in enc.calls[2].seen
    /\ enc.calls[1].m # enc.calls[2].m
    /\ enc.wire = FrameOfMessage(enc.e.Protocol, enc.calls[1].m)
                    \o FrameOfMessage(enc.e.Protocol, enc.calls[2].m)

\* The Protocol of the Encoder gives a type code for the message of call k
Classified(k) == MessageType(enc.e.Protocol, enc.calls[k].m).err = ErrNil

\* The frame of the message of call k is larger than the MessageSize
Oversize(k) == HeaderSize + Len(MarshalBinary(enc.calls[k].m)) > enc.e.MessageSize

\* A call that WriteMessage rejected wrote nothing and never took the lock,
\* the lock is held only by a call in progress, and a call that WriteMessage
\* did not reject fails only by an error of the Writer
Rejection(k) ==
    /\ enc.calls[k].err \in {ErrMessageTooBig, ErrUnknownMessageType} =>
          Positions(k) = {} /\ ~enc.calls[k].locked
    /\ (enc.calls[k].g = enc.e.writeLock /\ enc.calls[k].pc = "done") =>
          \E j \in DOMAIN enc.calls :
              enc.calls[j].g = enc.e.writeLock /\ enc.calls[j].pc \in {"header", "body"}
    /\ (enc.calls[k].pc = "done" /\ Classified(k) /\ ~Oversize(k)) =>
          enc.calls[k].err \in {ErrNil, ErrIO}
    /\ (Succeeded(k) /\ enc.calls[k].seen # {}) =>
          Segment(k) = FrameOfMessage(enc.e.Protocol, enc.calls[k].m)

\* C9 as stated: WriteMessage returns ErrMessageTooBig exactly when
\* 5 + len(body) > MessageSize and ErrUnknownMessageType when the Protocol
\* cannot classify the message; a rejected call writes nothing and leaves the
\* lock free, and a later call of an acceptable message writes its frame.
C9_RejectionAsStated ==
    enc # <<>> =>
        \A k \in DOMAIN enc.calls :
            enc.calls[k].pc = "done" =>
                /\ enc.calls[k].err = ErrMessageTooBig <=> Oversize(k)
                /\ ~Classified(k) => enc.calls[k].err = ErrUnknownMessageType
                /\ Rejection(k)

\* C9 amended: WriteMessage returns ErrUnknownMessageType exactly when the
\* Protocol cannot classify the message, and ErrMessageTooBig exactly when
\* the Protocol classifies it and 5 + len(body) > MessageSize; a rejected call
\* writes nothing and leaves the lock free, and a later call of an acceptable
\* message writes its frame.
C9_Rejection ==
    enc # <<>> =>
        \A k \in DOMAIN enc.calls :
            enc.calls[k].pc = "done" =>
                /\ enc.calls[k].err = ErrUnknownMessageType <=> ~Classified(k)
                /\ enc.calls[k].err = ErrMessageTooBig <=> (Classified(k) /\ Oversize(k))
                /\ Rejection(k)

\* C9 witness: a call was rejected for the type of a message that is also
\* larger than the MessageSize, and a call made after it has written its
\* whole frame, the only bytes on the wire
C9_Witness ==
    /\ enc # <<>>
    /\ \E j, k \in DOMAIN enc.calls :
          /\ enc.calls[j].pc = "done" /\ enc.calls[j].err = ErrUnknownMessageType
          /\ Oversize(j)
          /\ j \in enc.calls[k].seen /\ Succeeded(k)
          /\ enc.wire = FrameOfMessage(enc.e.Protocol, enc.calls[k].m)
          /\ enc.e.writeLock = 0

----------------------------------------------------------------------------
(* Protocol tables: in one dialect, a type code is looked up and the type  *)
(* of the message it gives is asked back, or the type of an empty message  *)
(* is asked and then the message of that type.                             *)

\* MessageType is a byte
Codes == 0..255

\* The empty messages handed to MessageType
EmptyMessages == {New(v) : v \in Variants} \cup {AlienMessage}

\* p.Message(mt)
LookupMessage(mt) ==
    /\ tab # <<>> /\ tab.pc = "idle"
    /\ tab' = [tab EXCEPT !.pc = "message", !.mt = mt,
                          !.new = Message(tab.Protocol, mt)]
    /\ UNCHANGED <<codecVars, decVars, enc, app>>

\* p.MessageType of the message that p.Message returned
TypeOfNew ==
    /\ tab # <<>> /\ tab.pc = "message" /\ tab.new.err = ErrNil
    /\ tab' = [tab EXCEPT !.pc = "message-type",
                          !.type = MessageType(tab.Protocol, tab.new.m)]
    /\ UNCHANGED <<codecVars, decVars, enc, app>>

\* p.MessageType(m)
LookupType(m) ==
    /\ tab # <<>> /\ tab.pc = "idle"
    /\ tab' = [tab EXCEPT !.pc = "type", !.m = m,
                          !.type = MessageType(tab.Protocol, m)]
    /\ UNCHANGED <<codecVars, decVars, enc, app>>

\* p.Message of the type that p.MessageType returned
NewOfType ==
    /\ tab # <<>> /\ tab.pc = "type" /\ tab.type.err = ErrNil
    /\ tab' = [tab EXCEPT !.pc = "type-message",
                          !.new = Message(tab.Protocol, tab.type.mt)]
    /\ UNCHANGED <<codecVars, decVars, enc, app>>

TableNext ==
    \/ \E mt \in Codes : LookupMessage(mt)
    \/ TypeOfNew
    \/ \E m \in EmptyMessages : LookupType(m)
    \/ NewOfType

TableInit ==
    /\ CodecIdle /\ DecIdle /\ EncIdle /\ AppIdle
    /\ \E p \in Protocols :
          tab = [Protocol |-> p, pc |-> "idle", mt |-> NoType, m |-> NilMessage,
                 new |-> Ok(NilMessage), type |-> [err |-> ErrNil, mt |-> NoType]]

TableSpec == TableInit /\ [][TableNext]_vars

\* The dialect's Message returns the variant of m for some code
Constructed(p, m) ==
    \E mt \in Codes : Message(p, mt).err = ErrNil /\ Message(p, mt).m.variant = m.variant

\* C10 as stated: in each table, MessageType gives the code c back for the
\* message of every code c that Message knows, and Message gives an empty
\* message of the variant of m for the type of every m that MessageType knows.
C10_TableRoundTripAsStated ==
    tab # <<>> =>
        /\ tab.pc = "message-type" => tab.type = [err |-> ErrNil, mt |-> tab.mt]
        /\ tab.pc = "type-message" => tab.new = Ok(New(tab.m.variant))

\* C10 amended: in each table, MessageType gives the code c back for the
\* message of every code c that Message knows, and Message gives an empty
\* message of the variant of m for the type of every m of a variant that the
\* table's Message constructs.
C10_TableRoundTrip ==
    tab # <<>> =>
        /\ tab.pc = "message-type" => tab.type = [err |-> ErrNil, mt |-> tab.mt]
        /\ (tab.pc = "type-message" /\ Constructed(tab.Protocol, tab.m)) =>
              tab.new = Ok(New(tab.m.variant))

\* C10 witness: the 9P2000.u table gave Tcreate for an empty
\* CreateRequestDotu and an empty CreateRequestDotu for Tcreate
C10_Witness ==
    /\ tab # <<>> /\ tab.Protocol = "NineP2000Dotu" /\ tab.pc = "type-message"
    /\ tab.m = New("CreateRequestDotu") /\ tab.type.mt = Tcreate
    /\ tab.new = Ok(tab.m)

----------------------------------------------------------------------------
(* Properties of the dialect tables *)

\* C11: the 9P2000.u table returns a Dotu variant for exactly the codes
\* Tauth, Tattach, Rerror, Tcreate, Rstat and Twstat, the 9P2000.e table
\* returns a variant of its own for exactly the codes 150..155, and for every
\* other code a dialect's Message returns what the base table returns.
C11_DialectFallThrough ==
    (tab # <<>> /\ tab.pc = "message") =>
        LET own == tab.new.err = ErrNil
                     /\ tab.new.m.variant \in DotuVariants \cup DoteVariants
        IN  /\ tab.Protocol = "NineP2000" => ~own
            /\ tab.Protocol = "NineP2000Dotu" =>
                  /\ own <=> tab.mt \in {Tauth, Tattach, Rerror, Tcreate, Rstat, Twstat}
                  /\ own => tab.new.m.variant \in DotuVariants
            /\ tab.Protocol = "NineP2000Dote" =>
                  /\ own <=> tab.mt \in 150..155
                  /\ own => tab.new.m.variant \in DoteVariants
            /\ ~own => tab.new = NineP2000_Message(tab.mt)

\* C11 witness: the 9P2000.e table was asked for the code 152 and gave a
\* SimpleReadRequestDote, which the base table does not know
C11_Witness ==
    /\ tab # <<>> /\ tab.pc = "message" /\ tab.Protocol = "NineP2000Dote"
    /\ tab.mt = 152 /\ tab.new = Ok(New("SimpleReadRequestDote"))
    /\ NineP2000_Message(152).err = ErrUnknownMessageType

----------------------------------------------------------------------------
(* Unknown type codes *)

\* A code that no table of the dialect p gives a message for: Terror, and
\* every code outside 100..127 that the dialect does not add
UnknownCode(p, c) ==
    \/ c = Terror
    \/ c \notin 100..127 /\ ~(p = "NineP2000Dote" /\ c \in 150..155)

\* C12: Message returns ErrUnknownMessageType and no message for Terror and
\* for every code that is neither in 100..127 nor added by the dialect, and
\* a ReadMessage call that handed such a type byte to the Protocol returned
\* ErrUnknownMessageType and no message, without calling UnmarshalBinary.
C12_UnknownTypeRejected ==
    \A i \in active :
        /\ (dec[i].returned = <<>> /\ dec[i].c.pc = "idle") =>
              \A p \in Protocols : \A c \in Codes :
                  UnknownCode(p, c) =>
                      Message(p, c) = Fail(ErrUnknownMessageType, NilMessage)
        /\ \A k \in DOMAIN dec[i].returned :
              LET e == dec[i].returned[k]
              IN  (e.mt >= 0 /\ UnknownCode(dec[i].d.Protocol, e.mt)) =>
                      e.err = ErrUnknownMessageType /\ e.m = NilMessage /\ ~e.unm

\* C12 witness: a greedy decoder returned a valid frame and then met the
\* type byte Terror
C12_Witness ==
    \E i \in active :
        /\ dec[i].d.Greedy /\ Len(dec[i].returned) = 2
        /\ dec[i].returned[1].err = ErrNil
        /\ dec[i].returned[2].mt = Terror
        /\ dec[i].returned[2].err = ErrUnknownMessageType

----------------------------------------------------------------------------
(* The caller replaces the Protocol of a Decoder between ReadMessage calls *)

SwapKinds == {"clunk", "attachu"}

SwapStreams == UNION {[1..n -> SwapKinds] : n \in 0..MaxFrames}

\* A MessageSize that lets the buffer hold a frame and the next one
SwapMessageSize == Len(FrameBytes("clunk")) + Len(FrameBytes("attachu"))

\* d.Protocol = p, between two calls; swapped: the bytes that waited in the
\* buffer when the Protocol was last replaced
SetProtocol(i, p) ==
    /\ i \in active
    /\ dec[i].c.pc = "idle"
    /\ dec[i].d.Protocol # p
    /\ dec' = [dec EXCEPT ![i].d.Protocol = p,
                          ![i].swapped = dec[i].d.total - dec[i].d.ptr]
    /\ UNCHANGED <<codecVars, input, active, enc, tab, app>>

SwapNext ==
    \/ DecoderNext
    \/ \E i \in active : \E p \in {"NineP2000", "NineP2000Dotu"} : SetProtocol(i, p)

SwapInit ==
    /\ CodecIdle /\ EncIdle /\ TabIdle /\ AppIdle
    /\ input \in SwapStreams
    /\ active = {1}
    /\ \E g \in BOOLEAN : \E p \in {"NineP2000", "NineP2000Dotu"} :
         dec = <<NewRun(NewDecoder(p, g, SwapMessageSize), StreamBytes(input), 0)>>

SwapSpec == SwapInit /\ [][SwapNext]_vars

\* C13: a ReadMessage call that follows a call that returned a message, and
\* returns a message itself, returns the variant that the Protocol set at the
\* time of the call gives for the type byte of the frame: for a Tattach frame
\* AttachRequestDotu under 9P2000.u and AttachRequest under 9P2000, in simple
\* and in greedy mode.
C13_ProtocolSwap ==
    \A i \in active :
        \A k \in DOMAIN dec[i].returned :
            LET e == dec[i].returned[k]
            IN  (k > 1 /\ dec[i].returned[k - 1].err = ErrNil /\ e.err = ErrNil) =>
                    /\ e.m.variant = Message(e.Protocol, e.mt).m.variant
                    /\ (e.mt = Tattach /\ e.Protocol = "NineP2000Dotu") =>
                            e.m = FrameMessage("attachu")
                    /\ (e.mt = Tattach /\ e.Protocol = "NineP2000") =>
                            e.m.variant = "AttachRequest"

\* C13 witness: a greedy decoder of the base dialect returned a frame while
\* the whole Tattach frame behind it was in the buffer, the Protocol was then
\* replaced by 9P2000.u, and the next call returned the AttachRequestDotu
C13_Witness ==
    \E i \in active :
        /\ dec[i].d.Greedy /\ Len(dec[i].returned) = 2
        /\ dec[i].returned[1].err = ErrNil /\ dec[i].returned[1].Protocol = "NineP2000"
        /\ dec[i].swapped = Len(FrameBytes("attachu"))
        /\ dec[i].returned[2].Protocol = "NineP2000Dotu"
        /\ dec[i].returned[2].err = ErrNil
        /\ dec[i].returned[2].m = FrameMessage("attachu")

----------------------------------------------------------------------------
(* The caller resets a Decoder between ReadMessage calls *)

\* d.Reset() between two calls, once in a run; reset: the error it returned
\* and the decoder before and after the call
CallReset(i) ==
    LET Called(x) ==
            dec' = [dec EXCEPT ![i].d = x.d,
                               ![i].reset = [called |-> TRUE, err |-> x.err,
                                             before |-> dec[i].d, after |-> x.d]]
    IN
    /\ i \in active
    /\ dec[i].c.pc = "idle"
    /\ ~dec[i].reset.called
    /\ Called(Reset(dec[i].d))
    /\ UNCHANGED <<codecVars, input, active, enc, tab, app>>

ResetNext == DecoderNext \/ \E i \in active : CallReset(i)

ResetInit ==
    /\ CodecIdle /\ EncIdle /\ TabIdle /\ AppIdle
    /\ input \in PairStreams
    /\ active = {1}
    /\ \E g \in BOOLEAN :
         dec = <<NewRun(NewDecoder("NineP2000", g, MSize), StreamBytes(input),
                        MaxFaults)>>

ResetSpec == ResetInit /\ [][ResetNext]_vars

\* C14: Reset succeeds only when the decoder is drained (ptr = total and no
\* message pending); when it fails it changes no field of the decoder, and
\* when it succeeds total, ptr and size are 0, needed is 5, no message is
\* pending and the buffer is a new one of MessageSize bytes.
C14_ResetWhenDrained ==
    \A i \in active :
        LET x == dec[i].reset
        IN  x.called =>
                /\ x.err = ErrNil <=>
                      (x.before.ptr = x.before.total /\ x.before.m = NilMessage)
                /\ x.err # ErrNil => x.after = x.before
                /\ x.err = ErrNil =>
                      /\ x.after.total = 0 /\ x.after.ptr = 0 /\ x.after.size = 0
                      /\ x.after.needed = HeaderSize /\ x.after.m = NilMessage
                      /\ x.after.buffer = MakeBytes(x.after.MessageSize)


----------------------------------------------------------------------------
(* Storage of the returned messages (container.go greedyRead, 9p.go         *)
(* ReadResponse.UnmarshalBinary).  Strings are Go strings, built by a       *)
(* conversion that copies; a byte slice field either owns its storage or,  *)
(* when the message carries shares, is a window into the slice that         *)
(* UnmarshalBinary was given.                                               *)

ShareKinds == {"big", "read", "clunk"}

ShareStreams == UNION {[1..n -> ShareKinds] : n \in 0..MaxFrames}

\* The frame of kind "big" fits the buffer
ShareMessageSize == Len(FrameBytes("big"))

\* One decoder, greedy or simple, on a stream of Rread and Rclunk frames
ShareInit ==
    /\ CodecIdle /\ EncIdle /\ TabIdle /\ AppIdle
    /\ input \in ShareStreams
    /\ active = {1}
    /\ \E g \in BOOLEAN :
         dec = <<NewRun(NewDecoder("NineP2000", g, ShareMessageSize),
                        StreamBytes(input), 0)>>

ShareSpec == ShareInit /\ [][DecoderNext]_vars

\* The message m as its holder reads it now: a field that is a window at
\* offset at of buffer has the bytes the buffer holds there now
Held(m, buffer, at) ==
    IF at >= 0 /\ "shares" \in DOMAIN m
    THEN [m EXCEPT !.Data = Slice(buffer, at + m.shares[1], at + m.shares[2])]
    ELSE m

\* C15: whatever ReadMessage calls follow, every message a call has returned
\* reads as it did when it was returned, although the later calls compact and
\* overwrite the decoder's buffer.
C15_NoSharedStorage ==
    \A i \in active :
        \A k \in DOMAIN dec[i].returned :
            LET e == dec[i].returned[k]
            IN  e.err = ErrNil => Held(e.m, dec[i].d.buffer, e.at) = e.m

\* A greedy decoder returned an Rread message out of its buffer, and a later
\* call has put the data of another Rread frame at the same place
C15_Witness ==
    /\ dec # <<>>
    /\ dec[1].d.Greedy
    /\ Len(dec[1].returned) >= 2
    /\ dec[1].returned[1].err = ErrNil
    /\ dec[1].returned[1].m = FrameMessage("read")
    /\ dec[1].returned[1].at >= 0
    /\ dec[1].returned[2].err = ErrNil
    /\ dec[1].returned[2].m = FrameMessage("big")
    /\ Slice(dec[1].d.buffer, dec[1].returned[1].at + 6, dec[1].returned[1].at + 7)
         # FrameMessage("read").Data


----------------------------------------------------------------------------
(* The nio codec (nio.go, unnamed/part_004): UnmarshalBinary reads its      *)
(* argument through the nread functions.  A Go slice is given as its bytes *)
(* b and the bytes room that its backing array holds behind its end:       *)
(* cap(b) = Len(b) + Len(room).                                            *)

\* nreadByte, nreadUint16, nreadUint32, nreadUint64: [err, v, idx]
nreadUint(s, idx, w) ==
    IF Len(s) < idx + w THEN [err |-> ErrPayloadTooShort, v |-> 0, idx |-> 0]
    ELSE [err |-> ErrNil, v |-> LEValue(Slice(s, idx, idx + w)), idx |-> idx + w]

\* b[lo:hi]: a run-time panic when hi is beyond the capacity, else the bytes
\* of the backing array, with beyond telling that some lie behind the end of b
Reslice(b, room, lo, hi) ==
    IF hi > Len(b) + Len(room) THEN [err |-> "panic", v |-> <<>>, beyond |-> FALSE]
    ELSE [err |-> ErrNil, v |-> SubSeq(b \o room, lo + 1, hi), beyond |-> hi > Len(b)]

Qid_UnmarshalBinary_nio(q, b) ==
    LET Path(q2, x) == [err |-> x.err, m |-> [q2 EXCEPT !.Path = x.v]]
        Version(q1, x) ==
            IF x.err # ErrNil THEN Fail(x.err, [q1 EXCEPT !.Version = x.v])
            ELSE Path([q1 EXCEPT !.Version = x.v], nreadUint(b, x.idx, 8))
        Type(x) ==
            IF x.err # ErrNil THEN Fail(x.err, [q EXCEPT !.Type = x.v])
            ELSE Version([q EXCEPT !.Type = x.v], nreadUint(b, x.idx, 4))
    IN  Type(nreadUint(b, 0, 1))

\* [err, m, beyond]: err "panic" for a run-time panic, beyond for a read of
\* bytes behind the end of b
AuthResponse_UnmarshalBinary_nio(m, b, room) ==
    LET Qid(m1, s, q) ==
            [err |-> q.err, m |-> [m1 EXCEPT !.AuthQid = q.m], beyond |-> s.beyond]
        Sliced(m1, s) ==
            IF s.err # ErrNil THEN [err |-> s.err, m |-> m1, beyond |-> FALSE]
            ELSE Qid(m1, s, Qid_UnmarshalBinary_nio(m1.AuthQid, s.v))
        Tagged(x) ==
            IF x.err # ErrNil
            THEN [err |-> x.err, m |-> [m EXCEPT !.Tag = x.v], beyond |-> FALSE]
            ELSE Sliced([m EXCEPT !.Tag = x.v], Reslice(b, room, x.idx, x.idx + 13))
    IN  Tagged(nreadUint(b, 0, 2))

\* The bodies of Rauth messages
AuthBodies ==
    {MarshalBinary([New("AuthResponse") EXCEPT !.Tag = 1, !.AuthQid = q]) : q \in SampleQids}

\* A backing array holds a body, or the start of one, and then the start of
\* the frame that follows it in a decoder's buffer; the slice handed to
\* UnmarshalBinary is its first len bytes.
PrefixInit ==
    /\ CodecIdle /\ DecIdle /\ EncIdle /\ TabIdle
    /\ \E body \in AuthBodies :
         \E c \in 0..(Len(body) + Len(FrameBytes("clunk"))) :
           \E n \in 0..Min(c, Len(body)) :
             app = [pc |-> "start", len |-> n,
                    array |-> SubSeq(body \o FrameBytes("clunk"), 1, c),
                    out |-> [err |-> ErrNil, m |-> NilMessage, beyond |-> FALSE]]

UnmarshalPrefix ==
    /\ app # <<>>
    /\ app.pc = "start"
    /\ app' = [app EXCEPT
                 !.pc = "done",
                 !.out = AuthResponse_UnmarshalBinary_nio(
                            New("AuthResponse"), SubSeq(app.array, 1, app.len),
                            SubSeq(app.array, app.len + 1, Len(app.array)))]
    /\ UNCHANGED <<codecVars, decVars, enc, tab>>

PrefixSpec == PrefixInit /\ [][UnmarshalPrefix]_vars

\* C16: UnmarshalBinary on a body shorter than the fields of the variant
\* require returns ErrPayloadTooShort: it does not panic and reads no byte
\* behind the end of the slice it was given, whatever the capacity of the
\* slice.
C16_ShortBodyRejected ==
    (app # <<>> /\ app.pc = "done" /\ app.len < 2 + 13) =>
        /\ app.out.err = ErrPayloadTooShort
        /\ ~app.out.beyond


----------------------------------------------------------------------------
(* Strings at the limit of the 16-bit length (nio.go nwriteString,         *)
(* container.go writeString, the MarshalBinary methods)                    *)

\* The largest value of a uint16
MaxUint16 == 65535

\* nwriteString(s, str): the bytes appended to s
nwriteString(s, str) ==
    s \o CopyAt(PutUint16(MakeBytes(2 + Len(str)), 0, Len(str)), 2, str)

\* nwriteByte, nwriteUint16, nwriteUint32, nwriteUint64
nwriteUint(s, u, w) == s \o LEBytes(u, w)

RECURSIVE nwriteNames(_, _)
nwriteNames(s, names) ==
    IF names = <<>> THEN s ELSE nwriteNames(nwriteString(s, Head(names)), Tail(names))

\* WalkRequest.MarshalBinary of the nio codec
WalkRequest_MarshalBinary_nio(m) ==
    nwriteNames(nwriteUint(nwriteUint(nwriteUint(nwriteUint(<<>>, m.Tag, 2), m.Fid, 4),
                                      m.NewFid, 4),
                           Len(m.Names) % (MaxUint16 + 1), 2),
                m.Names)

\* The functions that write a string, each with the field that holds the
\* string and the offset of its length in the bytes written
StringWriters ==
    {<<"writeString", "", 0>>, <<"nwriteString", "", 0>>,
     <<"WalkRequest", "Names", 2 + 4 + 4 + 2>>, <<"ErrorResponse", "Error", 2>>,
     <<"ErrorResponseDotu", "Error", 2>>}

StringLengths == (0..9) \cup {MaxUint16, MaxUint16 + 1}

\* A string of n bytes
StringOf(n) == [i \in 1..n |-> 97]

\* The function w applied to the string str: [err, b]; none of them has a
\* return of an error of its own, and the Writer is a buffer that takes all
WriteString(w, str) ==
    CASE w[1] = "writeString" -> [err |-> ErrNil, b |-> writeString(str)]
      [] w[1] = "nwriteString" -> [err |-> ErrNil, b |-> nwriteString(<<>>, str)]
      [] w[1] = "WalkRequest" ->
            [err |-> ErrNil,
             b |-> WalkRequest_MarshalBinary_nio([New(w[1]) EXCEPT ![w[2]] = <<str>>])]
      [] OTHER -> [err |-> ErrNil, b |-> MarshalBinary([New(w[1]) EXCEPT ![w[2]] = str])]

\* What the state keeps of a result: the error, the 16-bit length written,
\* the number of bytes written, and whether the whole string follows the length
Digest(w, str, r) ==
    [err |-> r.err, length |-> Uint16(r.b, w[3]), size |-> Len(r.b),
     whole |-> Len(r.b) >= w[3] + 2 + Len(str)
               /\ SubSeq(r.b, w[3] + 2 + 1, w[3] + 2 + Len(str)) = str]

StringInit ==
    /\ CodecIdle /\ DecIdle /\ EncIdle /\ TabIdle
    /\ \E w \in StringWriters, n \in StringLengths :
         app = [pc |-> "start", w |-> w, len |-> n,
                out |-> [err |-> ErrNil, length |-> 0, size |-> 0, whole |-> FALSE]]

MarshalString ==
    /\ app # <<>>
    /\ app.pc = "start"
    /\ app' = [app EXCEPT
                 !.pc = "done",
                 !.out = Digest(app.w, StringOf(app.len),
                                WriteString(app.w, StringOf(app.len)))]
    /\ UNCHANGED <<codecVars, decVars, enc, tab>>

StringSpec == StringInit /\ [][MarshalString]_vars

\* C17: marshalling a string of more than 65535 bytes returns an error; it
\* does not write the length modulo 65536 and then the whole string.
C17_LongStringRejected ==
    (app # <<>> /\ app.pc = "done" /\ app.len > MaxUint16) =>
        /\ app.out.err # ErrNil
        /\ ~(app.out.length = app.len % (MaxUint16 + 1) /\ app.out.whole)


----------------------------------------------------------------------------
(* EncodedLength (unnamed/part_004, 9pdotu.go, 9pdote.go) *)

Qid_EncodedLength == 13

\* A Stat that leaves out the four length prefixes of its strings
Stat_EncodedLength_NoPrefixes(s) ==
    2 + 2 + 4 + 13 + 4 + 4 + 4 + 8 + Len(s.Name) + Len(s.UID) + Len(s.GID) + Len(s.MUID)

Stat_EncodedLength(s) ==
    2 + 2 + 4 + 13 + 4 + 4 + 4 + 8 + 8 + Len(s.Name) + Len(s.UID) + Len(s.GID) + Len(s.MUID)

\* EncodedLength of the messages of 9P2000
NineP2000_EncodedLength(m) ==
    LET v == m.variant IN
    CASE v \in {"VersionRequest", "VersionResponse"} -> 2 + 4 + 2 + Len(m.Version)
      [] v = "AuthRequest" -> 2 + 4 + 2 + Len(m.Username) + 2 + Len(m.Service)
      [] v \in {"AuthResponse", "AttachResponse"} -> 2 + 13
      [] v = "AttachRequest" -> 2 + 4 + 4 + 2 + Len(m.Username) + 2 + Len(m.Service)
      [] v = "ErrorResponse" -> 2 + 2 + Len(m.Error)
      [] v = "FlushRequest" -> 2 + 2
      [] v \in {"FlushResponse", "ClunkResponse", "RemoveResponse",
                "WriteStatResponse"} -> 2
      [] v = "WalkRequest" -> 2 + 4 + 4 + 2 + NamesLength(m.Names)
      [] v = "WalkResponse" -> 2 + 2 + 13 * Len(m.Qids)
      [] v = "OpenRequest" -> 2 + 4 + 1
      [] v \in {"OpenResponse", "CreateResponse"} -> 2 + 13 + 4
      [] v = "CreateRequest" -> 2 + 4 + 2 + Len(m.Name) + 4 + 1
      [] v = "ReadRequest" -> 2 + 4 + 8 + 4
      [] v = "ReadResponse" -> 2 + 4 + Len(m.Data)
      [] v = "WriteRequest" -> 2 + 4 + 8 + 4 + Len(m.Data)
      [] v = "WriteResponse" -> 2 + 4
      [] v \in {"ClunkRequest", "RemoveRequest", "StatRequest"} -> 2 + 4
      [] v = "StatResponse" -> 2 + 2 + Stat_EncodedLength(m.Stat)
      [] v = "WriteStatRequest" -> 2 + 4 + 2 + Stat_EncodedLength(m.Stat)

\* EncodedLength of the messages of 9P2000.u
NineP2000Dotu_EncodedLength(m) ==
    LET v == m.variant IN
    CASE v = "AuthRequestDotu" -> 2 + 4 + 2 + Len(m.Username) + 2 + Len(m.Service) + 4
      [] v = "AttachRequestDotu" ->
            2 + 4 + 4 + 2 + Len(m.Username) + 2 + Len(m.Service) + 4
      [] v = "ErrorResponseDotu" -> 2 + 2 + Len(m.Error) + 4
      [] v = "CreateRequestDotu" ->
            2 + 4 + 2 + Len(m.Name) + 4 + 1 + 2 + Len(m.Extensions)
      [] v = "StatResponseDotu" -> 2 + 2 + StatDotu_EncodedLength(m.Stat)
      [] v = "WriteStatRequestDotu" -> 2 + 4 + 2 + StatDotu_EncodedLength(m.Stat)

\* EncodedLength of the messages of 9P2000.e
NineP2000Dote_EncodedLength(m) ==
    LET v == m.variant IN
    CASE v = "SessionRequestDote" -> 2 + 8
      [] v = "SessionResponseDote" -> 2
      [] v = "SimpleReadRequestDote" -> 2 + 4 + 2 + NamesLength(m.Names)
      [] v = "SimpleReadResponseDote" -> 2 + 4 + Len(m.Data)
      [] v = "SimpleWriteRequestDote" ->
            2 + 4 + 2 + NamesLength(m.Names) + 4 + Len(m.Data)
      [] v = "SimpleWriteResponseDote" -> 2 + 4

\* m.EncodedLength() by the dynamic type of m
EncodedLength(m) ==
    CASE m.variant \in BaseVariants -> NineP2000_EncodedLength(m)
      [] m.variant \in DotuVariants -> NineP2000Dotu_EncodedLength(m)
      [] m.variant \in DoteVariants -> NineP2000Dote_EncodedLength(m)

Qid_MarshalBinary_nio(q) ==
    nwriteUint(nwriteUint(nwriteUint(<<>>, q.Type, 1), q.Version, 4), q.Path, 8)

Stat_MarshalBinary_nio(s) ==
    LET Strings(b) ==
            nwriteString(nwriteString(nwriteString(nwriteString(b, s.Name), s.UID),
                                      s.GID), s.MUID)
        Times(b) ==
            nwriteUint(nwriteUint(nwriteUint(nwriteUint(b, s.Mode, 4), s.Atime, 4),
                                  s.Mtime, 4), s.Length, 8)
        Qid(b) ==
            nwriteUint(nwriteUint(nwriteUint(b, s.Qid.Type, 1), s.Qid.Version, 4),
                       s.Qid.Path, 8)
        Head2(b) == nwriteUint(nwriteUint(b, s.Type, 2), s.Dev, 4)
        Sized(l) == PutUint16(MakeBytes(2), 0, l - 2)
    IN  Strings(Times(Qid(Head2(Sized(
            2 + 2 + 4 + 13 + 4 + 4 + 4 + 8 + 8 + Len(s.Name) + Len(s.UID)
              + Len(s.GID) + Len(s.MUID))))))

\* The values that have an EncodedLength: messages, and the structures
\* Qid, Stat and StatDotu
Measured ==
    {[kind |-> "Message", v |-> m] : m \in UNION {Messages(v) : v \in Variants}}
      \cup {[kind |-> "Qid", v |-> q] : q \in SampleQids}
      \cup {[kind |-> "Stat", v |-> s] : s \in SampleStats}
      \cup {[kind |-> "StatDotu", v |-> s] : s \in SampleStatsDotu}

\* x.EncodedLength()
LengthOf(x) ==
    CASE x.kind = "Message" -> EncodedLength(x.v)
      [] x.kind = "Qid" -> Qid_EncodedLength
      [] x.kind = "Stat" -> Stat_EncodedLength(x.v)
      [] x.kind = "StatDotu" -> StatDotu_EncodedLength(x.v)

\* The marshalled forms of x: what each MarshalBinary or Encode of its type
\* returns
FormsOf(x) ==
    CASE x.kind = "Message" ->
            {MarshalBinary(x.v)}
              \cup (IF x.v.variant = "WalkRequest"
                    THEN {WalkRequest_MarshalBinary_nio(x.v)} ELSE {})
      [] x.kind = "Qid" -> {Qid_MarshalBinary(x.v), Qid_MarshalBinary_nio(x.v)}
      [] x.kind = "Stat" -> {Stat_MarshalBinary(x.v), Stat_MarshalBinary_nio(x.v)}
      [] x.kind = "StatDotu" -> {StatDotu_Encode(x.v)}

LengthInit ==
    /\ CodecIdle /\ DecIdle /\ EncIdle /\ TabIdle
    /\ \E x \in Measured : app = [pc |-> "start", x |-> x, length |-> -1, sizes |-> {}]

Measure ==
    /\ app # <<>>
    /\ app.pc = "start"
    /\ app' = [app EXCEPT !.pc = "done",
                          !.length = LengthOf(app.x),
                          !.sizes = {Len(b) : b \in FormsOf(app.x)}]
    /\ UNCHANGED <<codecVars, decVars, enc, tab>>

LengthSpec == LengthInit /\ [][Measure]_vars

\* C18: EncodedLength of a message, a Qid, a Stat or a StatDotu is the number
\* of bytes of its marshalled form.
C18_EncodedLength ==
    (app # <<>> /\ app.pc = "done") => app.sizes = {app.length}

\* A WalkRequest of two names, of one and of two bytes, has been measured
C18_Witness ==
    /\ app # <<>>
    /\ app.pc = "done"
    /\ app.x.kind = "Message"
    /\ app.x.v.variant = "WalkRequest"
    /\ Len(app.x.v.Names) = 2
    /\ app.length = 2 + 4 + 4 + 2 + 2 + 1 + 2 + 2
    /\ app.sizes = {app.length}


----------------------------------------------------------------------------
(* Short writes (container.go write, Encoder.WriteMessage).  The Writer of  *)
(* the run accepts between 1 and len(p) bytes of each Write and returns no *)
(* error.                                                                  *)

\* Write calls that one call of write issues in a run
MaxShortWrites == 3

\* write(w, b): one round of its loop, or its return.  written is the local
\* variable of the loop, got the bytes the Writer has received.
write ==
    LET Round(p) ==
            \E o \in ShortWrite(p) :
                app' = [app EXCEPT !.written = o.n,
                                   !.got = app.got \o SubSeq(p, 1, o.n),
                                   !.calls = app.calls + 1]
    IN
    /\ app # <<>>
    /\ app.pc = "loop"
    /\ IF app.written < Len(app.b)
       THEN /\ app.calls < MaxShortWrites
            /\ Round(SubSeq(app.b, app.written + 1, Len(app.b)))
       ELSE app' = [app EXCEPT !.pc = "done", !.err = ErrNil]
    /\ UNCHANGED <<codecVars, decVars, enc, tab>>

ShortNext ==
    \/ \E m \in EncMessages : WriteMessage(1, m)
    \/ \E k \in 1..MaxWrites : WriteLock(k) \/ WriteHeader(k) \/ WriteBody(k)
    \/ write

\* An Encoder on a Writer that writes short, and a call of write(w, b) on
\* such a Writer
ShortInit ==
    /\ CodecIdle /\ DecIdle /\ TabIdle
    /\ enc = [e |-> NewEncoder("NineP2000", MSize), wire |-> <<>>, owner |-> <<>>,
              faults |-> 0, calls |-> <<>>, short |-> TRUE]
    /\ \E b \in {<<>>, <<1>>, <<1, 2>>, <<1, 2, 3>>} :
         app = [pc |-> "loop", b |-> b, written |-> 0, got |-> <<>>, calls |-> 0,
                err |-> ErrNil]

ShortSpec == ShortInit /\ [][ShortNext]_vars

\* C19: on a Writer that accepts between 1 and len(p) bytes per Write and
\* returns no error, write(w, b) returns nil only after the Writer has
\* received the bytes of b, each once and in order, and a WriteMessage call
\* that returns nil has delivered the whole header and the whole body of its
\* frame.
C19_ShortWrites ==
    (app # <<>> /\ enc # <<>> /\ enc.short) =>
        /\ (app.pc = "done" /\ app.err = ErrNil) => app.got = app.b
        /\ \A k \in DOMAIN enc.calls :
              Succeeded(k) =>
                  Segment(k) = FrameOfMessage(enc.e.Protocol, enc.calls[k].m)

\* ---------------------------------------------------------------------------
\* The greedy decoder's needed counter at the start of a ReadMessage call
\* ---------------------------------------------------------------------------

\* A buffer that holds two Rclunk frames, so that one Read can deliver more
\* than the frame the decoder is waiting for
NeededMessageSize == 2 * Len(FrameBytes("clunk"))

\* One decoder, greedy or simple, with a buffer of two frames on a stream of
\* frames
NeededInit ==
    /\ CodecIdle /\ EncIdle /\ TabIdle /\ AppIdle
    /\ input \in Streams
    /\ active = {1}
    /\ \E g \in BOOLEAN :
         dec = <<NewRun(NewDecoder("NineP2000", g, NeededMessageSize),
                        StreamBytes(input), MaxFaults)>>

NeededSpec == NeededInit /\ [][DecoderNext]_vars

\* Decoder i is at the start of a ReadMessage call, its buffer allocated
AtCallStart(i) == dec[i].d.Greedy /\ dec[i].c.pc = "idle" /\ dec[i].d.buffer # <<>>

\* The bytes the buffer holds beyond the read position
Buffered(d) == d.total - d.ptr

\* The bytes still to be read before l bytes are buffered
StillRequired(d, l) == IF l > Buffered(d) THEN l - Buffered(d) ELSE 0

\* Every call of decoder i so far returned a message
CleanRun(i) == \A k \in DOMAIN dec[i].returned : dec[i].returned[k].err = ErrNil

\* No call of decoder i so far met a message type its Protocol does not know
TypesKnown(i) ==
    \A k \in DOMAIN dec[i].returned : dec[i].returned[k].err # ErrUnknownMessageType

TypeJustRejected(i) ==
    LET n == Len(dec[i].returned)
    IN  /\ n > 0
        /\ dec[i].returned[n].err = ErrUnknownMessageType
        /\ \A k \in 1..(n - 1) : dec[i].returned[k].err # ErrUnknownMessageType

NextSlice(d) == IF d.m = NilMessage THEN HeaderSize ELSE d.size

\* C21: in every reachable state of the greedy decoder 0 <= ptr <= total <=
\* len(buffer), and when needed <= 0 the header (ptr .. ptr + 5) or body
\* (ptr .. ptr + size) the decoder takes next lies inside the bytes read.
C21_PtrWithinTotal ==
    \A i \in active :
        LET d == dec[i].d
        IN  (d.Greedy /\ d.buffer # <<>>) =>
                /\ 0 <= d.ptr
                /\ d.ptr <= d.total
                /\ d.total <= Len(d.buffer)
                /\ d.needed <= 0 => d.ptr + NextSlice(d) <= d.total

\* ---------------------------------------------------------------------------
\* Frames that are in the buffer already
\* ---------------------------------------------------------------------------

\* The ReadMessage call with outcome e returned what its Protocol and the
\* message's UnmarshalBinary make of the frame of kind k
Returns(e, k) ==
    LET Same(f) == IF f.err = ErrNil THEN e.err = ErrNil /\ e.m = f.m
                   ELSE e.err = f.err /\ e.m = NilMessage
        Body(f, x) == IF x.err # ErrNil THEN Same(x)
                      ELSE Same(UnmarshalBinary(x.m, SubSeq(f, HeaderSize + 1, Len(f))))
        Frame(f) == Body(f, Message(e.Protocol, f[HeaderSize]))
    IN  Frame(FrameBytes(k))

\* C22: a greedy ReadMessage call that starts with a complete frame of the
\* stream in the buffer at ptr returns the decoding of that frame without a
\* Reader.Read, and greedyRead never calls Reader.Read while such a frame is
\* buffered.
C22_BufferedFrame ==
    \A i \in active :
        dec[i].d.Greedy =>
            /\ ~dec[i].starved
            /\ \A k \in DOMAIN dec[i].returned :
                  LET e == dec[i].returned[k]
                  IN  e.ready # 0 => e.reads = 0 /\ Returns(e, input[e.ready])

\* One Read delivered two Rclunk frames: two successive calls returned them,
\* the second without a Read
C22_Witness ==
    /\ dec # <<>>
    /\ dec[1].d.Greedy
    /\ input = <<"clunk", "clunk">>
    /\ Len(dec[1].returned) = 2
    /\ \A k \in 1..2 : /\ dec[1].returned[k].err = ErrNil
                       /\ dec[1].returned[k].m = FrameMessage("clunk")
    /\ dec[1].returned[1].reads = 1
    /\ dec[1].returned[2].reads = 0
    /\ dec[1].returned[2].ready = 2

\* ---------------------------------------------------------------------------
\* Simple mode keeps nothing between calls
\* ---------------------------------------------------------------------------

\* The decoding state of d is what the construction of the Decoder left
Untouched(d) ==
    \A f \in {"total", "ptr", "needed", "size", "m", "buffer"} :
        d[f] = NewDecoder(d.Protocol, d.Greedy, d.MessageSize)[f]

\* The sizes of the frames of the outcomes es, added up
RECURSIVE FramesSize(_)
FramesSize(es) == IF es = <<>> THEN 0 ELSE Head(es).hsize + FramesSize(Tail(es))

\* C23: a simple-mode ReadMessage call that returns a message has taken from
\* the Reader exactly the bytes of one frame, 5 of the header and size - 5 of
\* the body; simple mode never changes total, ptr, needed, size, the pending
\* message or the buffer; so after calls that returned messages the Reader
\* holds exactly the bytes of the stream behind the frames returned, also
\* when the Protocol was replaced between the calls.
C23_SimpleStateless ==
    \A i \in active :
        LET r == dec[i]
        IN  ~r.d.Greedy =>
              /\ Untouched(r.d)
              /\ \A k \in DOMAIN r.returned :
                    r.returned[k].err = ErrNil =>
                        /\ r.returned[k].took = r.returned[k].hsize
                        /\ r.returned[k].took = HeaderSize + r.returned[k].s
              /\ (r.c.pc = "idle" /\ \A k \in DOMAIN r.returned : r.returned[k].err = ErrNil)
                    => r.rd = SubSeq(StreamBytes(input), FramesSize(r.returned) + 1,
                                     Len(StreamBytes(input)))

\* A simple decoder returned an Rclunk, its Protocol was replaced, and the
\* next call took the Tattach frame behind it from the Reader, no byte more
\* or less
C23_Witness ==
    \E i \in active :
        /\ ~dec[i].d.Greedy
        /\ input = <<"clunk", "attachu">>
        /\ Len(dec[i].returned) = 2
        /\ dec[i].returned[1].err = ErrNil
        /\ dec[i].returned[1].took = Len(FrameBytes("clunk"))
        /\ dec[i].returned[1].Protocol = "NineP2000"
        /\ dec[i].returned[2].err = ErrNil
        /\ dec[i].returned[2].Protocol = "NineP2000Dotu"
        /\ dec[i].returned[2].m = FrameMessage("attachu")
        /\ dec[i].returned[2].took = Len(FrameBytes("attachu"))
        /\ dec[i].rd = <<>>

\* ---------------------------------------------------------------------------
\* The outer length of a Stat in Rstat and Twstat
\* ---------------------------------------------------------------------------

\* nreadString(s, idx): [err, v, idx]
nreadString(s, idx) ==
    LET Body(l) ==
            IF Len(s) < idx + 2 + l THEN [err |-> ErrPayloadTooShort, v |-> <<>>, idx |-> 0]
            ELSE [err |-> ErrNil, v |-> Slice(s, idx + 2, idx + 2 + l), idx |-> idx + 2 + l]
    IN  IF Len(s) < idx + 2 THEN [err |-> ErrPayloadTooShort, v |-> <<>>, idx |-> 0]
        ELSE Body(Uint16(s, idx))

\* The reads of Stat.UnmarshalBinary in their order: the field and the
\* width of its integer (0: a string)
StatReads ==
    <<<<"", 2>>, <<"Type", 2>>, <<"Dev", 4>>, <<"Qid.Type", 1>>, <<"Qid.Version", 4>>,
      <<"Qid.Path", 8>>, <<"Mode", 4>>, <<"Atime", 4>>, <<"Mtime", 4>>, <<"Length", 8>>,
      <<"Name", 0>>, <<"UID", 0>>, <<"GID", 0>>, <<"MUID", 0>>>>

\* s.f = v
StatSet(s, f, v) ==
    CASE f = "" -> s
      [] f = "Qid.Type" -> [s EXCEPT !.Qid.Type = v]
      [] f = "Qid.Version" -> [s EXCEPT !.Qid.Version = v]
      [] f = "Qid.Path" -> [s EXCEPT !.Qid.Path = v]
      [] OTHER -> [s EXCEPT ![f] = v]

\* Stat.UnmarshalBinary of the nio codec from its read number k on
RECURSIVE Stat_nread(_, _, _, _)
Stat_nread(s, b, idx, k) ==
    LET f == StatReads[k][1]
        Then(x) == IF x.err # ErrNil THEN Fail(x.err, StatSet(s, f, x.v))
                   ELSE Stat_nread(StatSet(s, f, x.v), b, x.idx, k + 1)
    IN  IF k > Len(StatReads) THEN Ok(s)
        ELSE Then(IF StatReads[k][2] = 0 THEN nreadString(b, idx)
                  ELSE nreadUint(b, idx, StatReads[k][2]))

Stat_UnmarshalBinary_nio(s, b) == Stat_nread(s, b, 0, 1)

\* UnmarshalBinary of StatResponse (idx0 = 2) and WriteStatRequest (idx0 = 6)
\* from the outer length on: [err, m, beyond]
OuterStat_nio(m, b, room, idx0) ==
    LET Stat(s, x) == [err |-> x.err, m |-> [m EXCEPT !.Stat = x.m], beyond |-> s.beyond]
        Sliced(s) ==
            IF s.err # ErrNil THEN [err |-> s.err, m |-> m, beyond |-> FALSE]
            ELSE Stat(s, Stat_UnmarshalBinary_nio(m.Stat, s.v))
        Outer(l) ==
            IF l.err # ErrNil THEN [err |-> l.err, m |-> m, beyond |-> FALSE]
            ELSE Sliced(Reslice(b, room, l.idx, l.idx + l.v))
    IN  Outer(nreadUint(b, idx0, 2))

StatResponse_UnmarshalBinary_nio(m, b, room) ==
    LET Tagged(x) ==
            IF x.err # ErrNil
            THEN [err |-> x.err, m |-> [m EXCEPT !.Tag = x.v], beyond |-> FALSE]
            ELSE OuterStat_nio([m EXCEPT !.Tag = x.v], b, room, x.idx)
    IN  Tagged(nreadUint(b, 0, 2))

WriteStatRequest_UnmarshalBinary_nio(m, b, room) ==
    LET Fidded(m1, x) ==
            IF x.err # ErrNil
            THEN [err |-> x.err, m |-> [m1 EXCEPT !.Fid = x.v], beyond |-> FALSE]
            ELSE OuterStat_nio([m1 EXCEPT !.Fid = x.v], b, room, x.idx)
        Tagged(x) ==
            IF x.err # ErrNil
            THEN [err |-> x.err, m |-> [m EXCEPT !.Tag = x.v], beyond |-> FALSE]
            ELSE Fidded([m EXCEPT !.Tag = x.v], nreadUint(b, x.idx, 4))
    IN  Tagged(nreadUint(b, 0, 2))

\* The two codecs of the base messages: the one of 9p.go, which indexes its
\* argument, and the nio codec
Codecs == {"index", "nio"}

\* The difference between the outer length of a body and the length of the
\* Stat that follows it
OuterDeltas == {-2, -1, 0, 1, 3}

\* The body of message m, a StatResponse or WriteStatRequest, with the outer
\* length outer
OuterBody(m, outer) ==
    LET x == Stat_MarshalBinary_nio(m.Stat)
    IN  (IF m.variant = "StatResponse" THEN LEBytes(m.Tag, 2)
         ELSE LEBytes(m.Tag, 2) \o LEBytes(m.Fid, 4))
        \o LEBytes(outer, 2) \o x

\* UnmarshalBinary of codec c on a new message of m's variant and the body b
\* with room behind it: [err, m, beyond]
OuterUnmarshal(c, m, b, room) ==
    LET Index(x) == [err |-> x.err, m |-> x.m, beyond |-> FALSE]
    IN  CASE c = "index" /\ m.variant = "StatResponse" ->
                Index(StatResponse_UnmarshalBinary(New(m.variant), b))
          [] c = "index" /\ m.variant = "WriteStatRequest" ->
                Index(WriteStatRequest_UnmarshalBinary(New(m.variant), b))
          [] c = "nio" /\ m.variant = "StatResponse" ->
                StatResponse_UnmarshalBinary_nio(New(m.variant), b, room)
          [] c = "nio" /\ m.variant = "WriteStatRequest" ->
                WriteStatRequest_UnmarshalBinary_nio(New(m.variant), b, room)

\* A StatResponse or WriteStatRequest body whose outer length is the length
\* of its Stat or differs from it, alone in its backing array or followed by
\* the start of another frame
OuterInit ==
    /\ CodecIdle /\ DecIdle /\ EncIdle /\ TabIdle
    /\ \E c \in Codecs : \E s \in SampleStats : \E delta \in OuterDeltas :
         \E room \in {<<>>, FrameBytes("clunk")} :
           \E m \in {[New("StatResponse") EXCEPT !.Tag = 1, !.Stat = s],
                     [New("WriteStatRequest") EXCEPT !.Tag = 1, !.Fid = 2, !.Stat = s]} :
             app = [pc |-> "start", codec |-> c, m |-> m, delta |-> delta,
                    b |-> OuterBody(m, Len(Stat_MarshalBinary_nio(s)) + delta),
                    room |-> room,
                    out |-> [err |-> ErrNil, m |-> NilMessage, beyond |-> FALSE]]

UnmarshalOuter ==
    /\ app # <<>>
    /\ app.pc = "start"
    /\ app' = [app EXCEPT !.pc = "done",
                          !.out = OuterUnmarshal(app.codec, app.m, app.b, app.room)]
    /\ UNCHANGED <<codecVars, decVars, enc, tab>>

OuterSpec == OuterInit /\ [][UnmarshalOuter]_vars

\* C24: UnmarshalBinary of a StatResponse or WriteStatRequest body whose outer
\* length differs from the length of the Stat, the bytes of the Stat being
\* complete in the body, returns no error and yields the message with the Stat
\* that the Stat's own fields describe.
C24_OuterLengthIgnored ==
    (app # <<>> /\ app.pc = "done" /\ app.delta # 0) =>
        /\ app.out.err = ErrNil
        /\ app.out.m = app.m

\* ---------------------------------------------------------------------------
\* The layout of Rcreate
\* ---------------------------------------------------------------------------

\* C25: the marshalled body of a CreateResponse has the qid type at byte 2,
\* the qid version at bytes 3..6, the qid path at bytes 7..14 and the iounit
\* at bytes 15..18, and UnmarshalBinary restores the message from it, for
\* every Qid.Type and Qid.Version.
C25_CreateResponseLayout ==
    cm.variant = "CreateResponse" =>
        /\ cpc \in {"marshalled", "unmarshalled"} =>
              /\ cb[2 + 1] = cm.Qid.Type
              /\ Slice(cb, 3, 7) = LEBytes(cm.Qid.Version, 4)
              /\ Slice(cb, 7, 15) = LEBytes(cm.Qid.Path, 8)
              /\ Slice(cb, 15, 19) = LEBytes(cm.IOUnit, 4)
        /\ cpc = "unmarshalled" => cout.err = ErrNil /\ cout.m = cm

\* ---------------------------------------------------------------------------
\* The qids of Rwalk
\* ---------------------------------------------------------------------------

\* C26: WalkResponse.UnmarshalBinary decodes its i-th qid (i from 0) from the
\* body bytes 4 + 13 * i .. 4 + 13 * i + 12, so that a marshalled response
\* with k qids unmarshals to the same k qids in the same order.
C26_WalkResponseQids ==
    (cm.variant = "WalkResponse" /\ cpc = "unmarshalled") =>
        /\ cout.err = ErrNil
        /\ Len(cout.m.Qids) = Len(cm.Qids)
        /\ \A i \in 0..(Len(cout.m.Qids) - 1) :
              cout.m.Qids[i + 1] = QidAt(cb, 4 + 13 * i)
        /\ cout.m.Qids = cm.Qids

\* ---------------------------------------------------------------------------
\* The round trip of a Stat
\* ---------------------------------------------------------------------------

\* The longest Name, UID, GID and MUID of the Stats that are marshalled
MaxStatString == 2

\* A string of n bytes that start at c
Letters(c, n) == [i \in 1..n |-> c + i]

\* A Stat is given to MarshalBinary; its strings have every combination of
\* lengths up to MaxStatString
StatInit ==
    /\ CodecIdle /\ DecIdle /\ EncIdle /\ TabIdle
    /\ \E q \in SampleQids : \E n, u, g, mu \in 0..MaxStatString :
         app = [pc |-> "start",
                s |-> [Type |-> 1, Dev |-> 2, Qid |-> q, Mode |-> 420, Atime |-> 3,
                       Mtime |-> 4, Length |-> 5, Name |-> Letters(10, n),
                       UID |-> Letters(20, u), GID |-> Letters(30, g),
                       MUID |-> Letters(40, mu)],
                b |-> <<>>, out |-> Ok(ZeroStat)]

\* b, err := s.MarshalBinary()
StatMarshal ==
    /\ app # <<>>
    /\ app.pc = "start"
    /\ app' = [app EXCEPT !.pc = "marshalled", !.b = Stat_MarshalBinary(app.s)]
    /\ UNCHANGED <<codecVars, decVars, enc, tab>>

\* err := new(Stat).UnmarshalBinary(b)
StatUnmarshal ==
    /\ app # <<>>
    /\ app.pc = "marshalled"
    /\ app' = [app EXCEPT !.pc = "unmarshalled",
                          !.out = Stat_UnmarshalBinary(ZeroStat, app.b)]
    /\ UNCHANGED <<codecVars, decVars, enc, tab>>

StatNext == StatMarshal \/ StatUnmarshal

StatSpec == StatInit /\ [][StatNext]_vars

\* C27: Stat.UnmarshalBinary of the bytes Stat.MarshalBinary gave returns no
\* error and restores every field, whatever the lengths of Name, UID, GID and
\* MUID, and the 2-byte size at the head of the bytes is their number less 2.
C27_StatRoundTrip ==
    app # <<>> =>
        /\ app.pc \in {"marshalled", "unmarshalled"} =>
              Uint16(app.b, 0) = Len(app.b) - 2
        /\ app.pc = "unmarshalled" => app.out.err = ErrNil /\ app.out.m = app.s

\* ---------------------------------------------------------------------------
\* The relation between needed, ptr and total
\* ---------------------------------------------------------------------------

\* C28: in every state of a greedy decoder whose buffer is allocated,
\* needed = ptr + L - total, where L is 5 when no message is pending and the
\* size of the pending body otherwise.
C28_NeededRelation ==
    \A i \in active :
        LET d == dec[i].d
        IN  (d.Greedy /\ d.buffer # <<>>) => d.needed = d.ptr + NextSlice(d) - d.total

\* ---------------------------------------------------------------------------
\* The room that greedyRead offers to Reader.Read
\* ---------------------------------------------------------------------------

\* A frame of a type that no Protocol knows, as long as the buffer, whose
\* body starts with what reads as the header of an Rclunk frame of the same
\* length
RoomKinds == {"clunk", "nested"}

RoomStreams == UNION {[1..n -> RoomKinds] : n \in 0..MaxFrames}

RoomMessageSize == Len(FrameBytes("nested"))

\* One decoder, greedy or simple, with a buffer of RoomMessageSize bytes
RoomInit ==
    /\ CodecIdle /\ EncIdle /\ TabIdle /\ AppIdle
    /\ input \in RoomStreams
    /\ active = {1}
    /\ \E g \in BOOLEAN :
         dec = <<NewRun(NewDecoder("NineP2000", g, RoomMessageSize),
                        StreamBytes(input), MaxFaults)>>

RoomSpec == RoomInit /\ [][DecoderNext]_vars

\* The size field s of a parsed header is one of a frame that fits the buffer
\* of d (-1: no header was parsed)
SizeFits(d, s) == s = -1 \/ (HeaderSize <= s /\ s <= Len(d.buffer))

\* Every header that decoder i has parsed so far has such a size field
SizesFit(i) ==
    /\ SizeFits(dec[i].d, dec[i].c.hsize)
    /\ \A k \in DOMAIN dec[i].returned : SizeFits(dec[i].d, dec[i].returned[k].hsize)

\* C29: as long as the buffer has 5 bytes or more and every parsed header
\* has a size between 5 and len(buffer), each slice that greedyRead has
\* passed to Reader.Read had at least needed bytes and at least 1.
C29_RoomForRead ==
    \A i \in active :
        (dec[i].d.Greedy /\ Len(dec[i].d.buffer) >= HeaderSize /\ SizesFit(i))
            => ~dec[i].tight

\* ---------------------------------------------------------------------------
\* The decoder after ErrMessageTooBig
\* ---------------------------------------------------------------------------

\* C30: a greedy ReadMessage call that returns ErrMessageTooBig leaves total,
\* ptr, needed, size, the pending message and the buffer as they were when it
\* examined the header, and every later call returns ErrMessageTooBig for
\* the same header, without a Read and without a message.
C30_TooBigSticks ==
    \A i \in active :
        LET r == dec[i]
            n == Len(r.returned)
        IN  (r.d.Greedy /\ ~r.reset.called) =>
              \A k \in DOMAIN r.returned :
                  r.returned[k].err = ErrMessageTooBig =>
                      /\ (k = n /\ r.c.pc = "idle") =>
                            DecodingState(r.d) = r.returned[k].exam
                      /\ \A j \in (k + 1)..n :
                            /\ r.returned[j].err = ErrMessageTooBig
                            /\ r.returned[j].m = NilMessage
                            /\ r.returned[j].reads = 0
                            /\ r.returned[j].exam = r.returned[k].exam

\* After an Rclunk that it returned, a decoder met the header of a frame
\* larger than its buffer, and two calls returned ErrMessageTooBig for it
C30_Witness ==
    \E i \in active :
        /\ dec[i].d.Greedy
        /\ input = <<"clunk", "big">>
        /\ Len(dec[i].returned) = 3
        /\ dec[i].returned[1].err = ErrNil
        /\ dec[i].returned[2].err = ErrMessageTooBig
        /\ dec[i].returned[2].hsize = Len(FrameBytes("big"))
        /\ dec[i].returned[3].err = ErrMessageTooBig
        /\ dec[i].returned[3].reads = 0
        /\ DecodingState(dec[i].d) = dec[i].returned[2].exam

====
